---- MODULE Spec2Model ----
(***************************************************************************)
(* Model of the FormFiller-Web backend: the in-memory session store, the   *)
(* /upload-form, /chat, /form-state, /export-pdf and DELETE /session       *)
(* handlers, the field validator and the question generator's local        *)
(* fallback.                                                               *)
(*                                                                         *)
(* Node runs every handler on one thread: the code between two awaits is   *)
(* one atomic step, and each await is a point where other handlers run.    *)
(* Every action below is such a stretch of code.                           *)
(*                                                                         *)
(* A JavaScript string is a sequence of one-character strings, so that the *)
(* validator's regular expressions are evaluated character by character.   *)
(* A JavaScript object is a record; a property the object does not have is *)
(* a field the record does not have.                                       *)
(***************************************************************************)
EXTENDS Integers, Sequences, FiniteSets, TLC

(* ------------------------------ bounds -------------------------------- *)

MaxFields == 2      \* longest schema a session is created with
MaxSessions == 1    \* uploads that create a session
MaxRequests == 3    \* requests that get as far as changing the state

(* ----------------------------- strings -------------------------------- *)

Null == "null"

EmptyMsg == <<>>
BlankMsg == <<" ">>
WordMsg == <<"a", "b">>
MailMsg == <<"a", "@", "b", ".", "c">>

\* the request bodies' `message` values
Messages == {EmptyMsg, BlankMsg, WordMsg, MailMsg}

IsDigit(c) == c \in {"0", "1", "2", "3", "4", "5", "6", "7", "8", "9"}

\* \s of the regular expressions and the characters String.trim removes
IsSpace(c) == c \in {" ", "\t", "\n", "\r"}

\* [^\s@]
IsLocalChar(c) == ~IsSpace(c) /\ c # "@"

\* /^[^\s@]+@[^\s@]+\.[^\s@]+$/
EmailPattern(v) ==
    \E i \in 1..Len(v) : \E j \in 1..Len(v) :
        /\ 1 < i /\ i + 1 < j /\ j < Len(v)
        /\ v[i] = "@"
        /\ v[j] = "."
        /\ \A k \in (1..Len(v)) \ {i} : IsLocalChar(v[k])

\* /^[\d\s\-\+\(\)]{10,}$/
PhonePattern(v) ==
    /\ Len(v) >= 10
    /\ \A k \in 1..Len(v) :
          IsDigit(v[k]) \/ IsSpace(v[k]) \/ v[k] \in {"-", "+", "(", ")"}

\* /^\d{1,2}[\/\-]\d{1,2}[\/\-]\d{2,4}$/
DatePattern(v) ==
    \E a \in 1..2 : \E b \in 1..2 : \E c \in 2..4 :
        /\ Len(v) = a + b + c + 2
        /\ \A k \in 1..a : IsDigit(v[k])
        /\ v[a + 1] \in {"/", "-"}
        /\ \A k \in (a + 2)..(a + b + 1) : IsDigit(v[k])
        /\ v[a + b + 2] \in {"/", "-"}
        /\ \A k \in (a + b + 3)..(a + b + c + 2) : IsDigit(v[k])

\* /^\d{3}-?\d{2}-?\d{4}$/
SsnPattern(v) ==
    \E h1 \in 0..1 : \E h2 \in 0..1 :
        /\ Len(v) = 9 + h1 + h2
        /\ \A k \in 1..3 : IsDigit(v[k])
        /\ h1 = 1 => v[4] = "-"
        /\ \A k \in (4 + h1)..(5 + h1) : IsDigit(v[k])
        /\ h2 = 1 => v[6 + h1] = "-"
        /\ \A k \in (6 + h1 + h2)..(9 + h1 + h2) : IsDigit(v[k])

\* the `validations` table: the types that carry a pattern
ValidatedTypes == {"email", "phone", "date", "ssn"}

PatternTest(type, v) ==
    CASE type = "email" -> EmailPattern(v)
      [] type = "phone" -> PhonePattern(v)
      [] type = "date" -> DatePattern(v)
      [] type = "ssn" -> SsnPattern(v)

PatternMessage(type) ==
    CASE type = "email" -> "Please provide a valid email address"
      [] type = "phone" -> "Please provide a valid phone number (at least 10 digits)"
      [] type = "date" -> "Please provide a date in format MM/DD/YYYY or DD-MM-YYYY"
      [] type = "ssn" -> "Please provide a valid SSN (XXX-XX-XXXX)"

\* an emptiness check that does not trim
IsEmptyValueUntrimmed(v) == v = <<>>

\* !value || value.trim().length === 0
IsEmptyValue(v) == v = <<>> \/ \A k \in 1..Len(v) : IsSpace(v[k])

validateFieldValue(type, value) ==
    IF IsEmptyValue(value)
    THEN [valid |-> FALSE, message |-> "This field cannot be empty"]
    ELSE IF type \in ValidatedTypes /\ ~PatternTest(type, value)
    THEN [valid |-> FALSE, message |-> PatternMessage(type)]
    ELSE [valid |-> TRUE, message |-> "Valid"]

(* ------------------------------ schemas ------------------------------- *)

\* the field types of the schemas sessions are created with, by position
TypeCycle == <<"email", "name">>

FieldId(i) == "field_" \o ToString(i)

MkField(i, type) ==
    [id |-> FieldId(i), label |-> type \o " " \o ToString(i),
     type |-> type, required |-> TRUE]

\* the schemas processForm hands to createSession: never empty
Schemas ==
    {[fields |-> [i \in 1..n |-> MkField(i, TypeCycle[((i - 1) % 2) + 1])]] :
        n \in 1..MaxFields}

(* ------------------------------- state -------------------------------- *)

VARIABLES
    NVIDIA_API_KEY,   \* process.env.NVIDIA_API_KEY, read once at load
    created,          \* session ids issued so far (uuidv4 never repeats)
    sessions,         \* keys of SessionStore.sessions (the Map)
    heap,             \* the session objects still referenced, by session id
    files,            \* files in the uploads directory
    uploadPending,    \* /upload-form handlers awaiting generateNextQuestion
    chatPending,      \* /chat handlers awaiting generateNextQuestion
    exportPending,    \* /export-pdf handlers at one of their awaits
    deletePending,    \* DELETE handlers at one of their awaits
    nreq,             \* requests that changed the state, so far
    args,             \* the arguments of a function that is run on its own
    result            \* what that function returned or threw

vars == <<NVIDIA_API_KEY, created, sessions, heap, files, uploadPending,
          chatPending, exportPending, deletePending, nreq, args, result>>

\* no function is run on its own: the server is
NoCall == args = <<>> /\ result = <<>>

PlaceholderKey == "your_nvidia_nims_api_key_here"

ApiKeys == {"", PlaceholderKey, "nvapi-key"}

\* a request without sessionId
NoId == 0

\* originalFilePath of a session that has no file
NoPath == <<>>

UploadPath(sid) == <<"upload", sid>>

OutputPath(sid) == <<"filled_form", sid>>

Init ==
    /\ NVIDIA_API_KEY \in ApiKeys
    /\ created = 0
    /\ sessions = {}
    /\ heap = <<>>
    /\ files = {}
    /\ uploadPending = {}
    /\ chatPending = {}
    /\ exportPending = {}
    /\ deletePending = {}
    /\ nreq = 0
    /\ NoCall

(* --------------------------- session store ---------------------------- *)

createSession(h, sid, formSchema) ==
    (sid :> [formSchema |-> formSchema,
             filledFields |-> <<>>,
             conversationHistory |-> <<>>,
             currentFieldIndex |-> 0,
             isComplete |-> FALSE,
             originalFilePath |-> NoPath]) @@ h

\* sessions.get(sessionId) || null is not null
hasSession(sid) == sid \in sessions

\* updateField that keeps no value but the new one
updateFieldReplacing(s, h, sid, fieldName, value) ==
    IF sid \in s
    THEN [h EXCEPT ![sid].filledFields = (fieldName :> value)]
    ELSE h

\* updateField that stores nothing
updateFieldLost(s, h, sid, fieldName, value) == h

\* the mutators look the session up in the Map, whose keys are s, and do
\* nothing when it is not there
updateField(s, h, sid, fieldName, value) ==
    IF sid \in s
    THEN [h EXCEPT ![sid].filledFields = (fieldName :> value) @@ @]
    ELSE h

\* addMessage that stores nothing
addMessageDropped(s, h, sid, role, content, req) == h

\* addMessage that writes over the last entry instead of appending
addMessageOverwrites(s, h, sid, role, content, req) ==
    IF sid \in s
    THEN [h EXCEPT ![sid].conversationHistory =
              IF Len(@) = 0
              THEN <<[role |-> role, content |-> content, req |-> req]>>
              ELSE [@ EXCEPT ![Len(@)] =
                       [role |-> role, content |-> content, req |-> req]]]
    ELSE h

\* req tags the entry with the request that appended it; the code stores a
\* timestamp there
addMessage(s, h, sid, role, content, req) ==
    IF sid \in s
    THEN [h EXCEPT ![sid].conversationHistory =
              Append(@, [role |-> role, content |-> content, req |-> req])]
    ELSE h

\* setCurrentFieldIndex that leaves the cursor where it is
setCurrentFieldIndexStuck(s, h, sid, index) == h

\* session.currentFieldIndex = index
setCurrentFieldIndex(s, h, sid, index) ==
    IF sid \in s
    THEN [h EXCEPT ![sid].currentFieldIndex = index]
    ELSE h

\* markComplete that leaves the flag as it is
markCompleteSkipped(s, h, sid) == h

markComplete(s, h, sid) ==
    IF sid \in s
    THEN [h EXCEPT ![sid].isComplete = TRUE]
    ELSE h

setOriginalFilePath(s, h, sid, filePath) ==
    IF sid \in s
    THEN [h EXCEPT ![sid].originalFilePath = filePath]
    ELSE h

deleteSession(s, sid) == s \ {sid}

\* a session object lives as long as the Map or a running handler refers to
\* it: h without the objects that neither the keys s nor the handlers ps
\* refer to
Collect(h, s, ps) ==
    [sid \in {x \in DOMAIN h : x \in s \/ \E p \in ps : p.sid = x} |-> h[sid]]

(* ------------------------- question generation ------------------------ *)

\* isAPIConfigured that takes any value of the key
isAPIConfiguredAnyKey == TRUE

isAPIConfigured == NVIDIA_API_KEY # "" /\ NVIDIA_API_KEY # PlaceholderKey

\* fields[i] of the code, i counted from 0
FieldAt(fields, i) == fields[i + 1]

CompleteReply ==
    [question |-> <<"Great! All fields have been filled successfully. You can now export your completed form as a PDF.">>,
     isComplete |-> TRUE]

FallbackCompleteReply ==
    [question |-> <<"All fields have been filled! You can now export your form.">>,
     isComplete |-> TRUE]

FallbackQuestion(field) ==
    [question |-> <<"Please provide your ", field.label, ".">>,
     fieldId |-> field.id,
     fieldLabel |-> field.label,
     fieldType |-> field.type,
     isComplete |-> FALSE,
     error |-> "Using fallback due to AI service error"]

RetryReply(field, validation) ==
    [question |-> <<validation.message, ". Please try again: ", field.label>>,
     fieldId |-> field.id,
     fieldLabel |-> field.label,
     fieldType |-> field.type,
     isComplete |-> FALSE,
     validationError |-> TRUE]

\* the text the service returns when it does not return JSON
RawText == "Sure! What is your name?"

\* what callNvidiaAPI and the parse of its answer can come to:
\*   fail    - fetch rejects, the status is not ok, or choices[0] is missing
\*   text    - the content has no {...} in it
\*   badjson - the content has a {...} that JSON.parse rejects
\*   json    - the content parses; followed tells whether the object is the
\*             one the system prompt asks for
LLMOutcomes ==
    {[kind |-> "fail"], [kind |-> "text"], [kind |-> "badjson"],
     [kind |-> "json", followed |-> TRUE], [kind |-> "json", followed |-> FALSE]}

\* the object built from unparsed content; index is the currentFieldIndex
\* destructured before the call
TextReply(fields, index) ==
    IF index < Len(fields)
    THEN [question |-> <<RawText>>,
          fieldId |-> FieldAt(fields, index).id,
          fieldLabel |-> FieldAt(fields, index).label,
          fieldType |-> FieldAt(fields, index).type,
          isComplete |-> FALSE]
    ELSE [question |-> <<RawText>>,
          fieldId |-> Null,
          fieldLabel |-> Null,
          fieldType |-> "text",
          isComplete |-> TRUE]

\* objects the service can return as JSON: the one its prompt describes for
\* the form context it was sent (followed), or one that contradicts it
JsonReply(fields, index, followed) ==
    LET asked == FieldAt(fields, IF index < Len(fields) THEN index ELSE 0)
        ask == [question |-> <<"What is your ", asked.label, "?">>,
                fieldId |-> asked.id,
                fieldLabel |-> asked.label,
                fieldType |-> asked.type,
                isComplete |-> FALSE]
    IN  IF (index < Len(fields)) = followed THEN ask ELSE FallbackCompleteReply

\* generateNextQuestion whose failure branch uses the index read before the
\* call
generateNextQuestionStale(session, index, outcome) ==
    LET fields == session.formSchema.fields
    IN  CASE outcome.kind = "json" -> JsonReply(fields, index, outcome.followed)
          [] outcome.kind \in {"text", "badjson"} -> TextReply(fields, index)
          [] outcome.kind = "fail" ->
                IF index < Len(fields)
                THEN FallbackQuestion(FieldAt(fields, index))
                ELSE FallbackCompleteReply

\* generateNextQuestion after its await: index was read before the call,
\* session is the object as it is now
generateNextQuestion(session, index, outcome) ==
    LET fields == session.formSchema.fields
    IN  CASE outcome.kind = "json" -> JsonReply(fields, index, outcome.followed)
          [] outcome.kind \in {"text", "badjson"} -> TextReply(fields, index)
          [] outcome.kind = "fail" ->
                IF session.currentFieldIndex < Len(fields)
                THEN FallbackQuestion(FieldAt(fields, session.currentFieldIndex))
                ELSE FallbackCompleteReply

(* ------------------------------ clients ------------------------------- *)

\* the handlers that hold a reference to a session object
Refs == uploadPending \cup chatPending \cup exportPending \cup deletePending

\* session ids are uuids: a client learns one from the upload's response
KnownIds == {sid \in 1..created : \A p \in uploadPending : p.sid # sid}

\* what a request can carry as sessionId: nothing, an id it was given (the
\* session may be gone by now), or an id that was never issued
ClientIds == {NoId, MaxSessions + 1} \cup KnownIds

\* a request that changes the state is counted, and its number marks what
\* it leaves in the state
Receive == nreq < MaxRequests /\ nreq' = nreq + 1

(* --------------------------- POST /upload-form ------------------------ *)

\* processForm throws: the uploaded file is unlinked again and 500 is sent
UploadFailed == UNCHANGED vars

\* multer stores the file, processForm returns formSchema, the session is
\* created and generateNextQuestion(session) is called and awaited
UploadForm(formSchema) ==
    LET sid == created + 1
        s1 == sessions \cup {sid}
    IN  /\ Receive
        /\ sid <= MaxSessions
        /\ created' = sid
        /\ files' = files \cup {UploadPath(sid)}
        /\ sessions' = s1
        /\ heap' = setOriginalFilePath(s1, createSession(heap, sid, formSchema),
                                       sid, UploadPath(sid))
        /\ uploadPending' = uploadPending \cup
               {[req |-> nreq', sid |-> sid, index |-> 0]}
        /\ UNCHANGED <<NVIDIA_API_KEY, args, result, chatPending, exportPending, deletePending>>

\* generateNextQuestion returns: the first question is stored and sent with
\* the session id
UploadFinish(p, outcome) ==
    LET firstQuestion == generateNextQuestion(heap[p.sid], p.index, outcome)
    IN  /\ uploadPending' = uploadPending \ {p}
        /\ UNCHANGED <<NVIDIA_API_KEY, args, result, created, sessions, files, chatPending,
                       exportPending, deletePending, nreq>>
        /\ heap' = Collect(addMessage(sessions, heap, p.sid, "assistant",
                                      firstQuestion, p.req),
                           sessions', Refs')

(* ------------------------------ POST /chat ---------------------------- *)

\* ChatStatus without the lookup of the session
ChatStatusUnchecked(sid, message) ==
    IF sid = NoId \/ message = EmptyMsg THEN 400
    ELSE IF ~isAPIConfigured THEN 503
    ELSE 200

\* the status of the response to a chat request; 200 where the handler goes
\* on to the session
ChatStatus(sid, message) ==
    IF sid = NoId \/ message = EmptyMsg THEN 400
    ELSE IF ~isAPIConfigured THEN 503
    ELSE IF ~hasSession(sid) THEN 404
    ELSE 200

\* ChatBranch that takes every answer as valid
ChatBranchUnvalidated(session, message) ==
    LET fields == session.formSchema.fields
    IN  IF session.currentFieldIndex < Len(fields)
        THEN IF session.currentFieldIndex + 1 >= Len(fields)
             THEN "complete"
             ELSE "next"
        ELSE "none"

\* what the handler does with an answer that got through to the session:
\*   retry    - the answer fails validation
\*   complete - the answer is valid and was the last field's
\*   next     - the answer is valid and fields remain
\*   none     - there is no current field
ChatBranch(session, message) ==
    LET fields == session.formSchema.fields
    IN  IF session.currentFieldIndex < Len(fields)
        THEN IF ~validateFieldValue(
                    FieldAt(fields, session.currentFieldIndex).type, message).valid
             THEN "retry"
             ELSE IF session.currentFieldIndex + 1 >= Len(fields)
             THEN "complete"
             ELSE "next"
        ELSE "none"

\* the response the handler sends before any await: retryResponse or
\* completeResponse
ChatResponse(session, message) ==
    LET currentField == FieldAt(session.formSchema.fields, session.currentFieldIndex)
    IN  IF ChatBranch(session, message) = "retry"
        THEN RetryReply(currentField, validateFieldValue(currentField.type, message))
        ELSE CompleteReply

\* the handler up to its first await or its return
ChatRequest(sid, message) ==
    /\ UNCHANGED <<NVIDIA_API_KEY, args, result, created, sessions, files, uploadPending,
                   exportPending, deletePending>>
    /\ IF ChatStatus(sid, message) # 200
       THEN UNCHANGED <<heap, chatPending, nreq>>
       ELSE
         LET session == heap[sid]
             req == nreq + 1
             branch == ChatBranch(session, message)
             h1 == addMessage(sessions, heap, sid, "user", [text |-> message], req)
             currentField == FieldAt(session.formSchema.fields,
                                     session.currentFieldIndex)
             h2 == updateField(sessions, h1, sid, currentField.id, message)
             nextIndex == session.currentFieldIndex + 1
             h3 == setCurrentFieldIndex(sessions, h2, sid, nextIndex)
             h4 == markComplete(sessions, h3, sid)
             pending == [req |-> req, sid |-> sid, message |-> message,
                         index |-> IF branch = "next" THEN nextIndex
                                   ELSE session.currentFieldIndex]
         IN  /\ Receive
             /\ heap' = CASE branch = "retry" ->
                               addMessage(sessions, h1, sid, "assistant",
                                          ChatResponse(session, message), req)
                          [] branch = "complete" ->
                               addMessage(sessions, h4, sid, "assistant",
                                          ChatResponse(session, message), req)
                          [] branch = "next" -> h3
                          [] branch = "none" -> h1
             /\ chatPending' = IF branch \in {"next", "none"}
                               THEN chatPending \cup {pending}
                               ELSE chatPending

\* generateNextQuestion returns: the question is stored and sent
ChatFinish(p, outcome) ==
    LET nextQuestion == generateNextQuestion(heap[p.sid], p.index, outcome)
    IN  /\ chatPending' = chatPending \ {p}
        /\ UNCHANGED <<NVIDIA_API_KEY, args, result, created, sessions, files, uploadPending,
                       exportPending, deletePending, nreq>>
        /\ heap' = Collect(addMessage(sessions, heap, p.sid, "assistant",
                                      nextQuestion, p.req),
                           sessions', Refs')

(* ----------------------- GET /form-state/:sessionId ------------------- *)

FormStateResponse(sid) ==
    IF ~hasSession(sid)
    THEN [status |-> 404]
    ELSE [status |-> 200,
          filledFields |-> heap[sid].filledFields,
          currentFieldIndex |-> heap[sid].currentFieldIndex,
          isComplete |-> heap[sid].isComplete,
          progress |-> [total |-> Len(heap[sid].formSchema.fields),
                        filled |-> Cardinality(DOMAIN heap[sid].filledFields)]]

\* the handler reads the session and changes nothing
FormState(sid) == sid # NoId /\ UNCHANGED vars

(* --------------------------- POST /export-pdf ------------------------- *)

\* ExportStatus without the check of isComplete
ExportStatusAnyProgress(sid) ==
    IF sid = NoId THEN 400
    ELSE IF ~hasSession(sid) THEN 404
    ELSE 200

\* the status of the response the handler sends before any await; 200 where
\* it goes on to generate the document
ExportStatus(sid) ==
    IF sid = NoId THEN 400
    ELSE IF ~hasSession(sid) THEN 404
    ELSE IF ~heap[sid].isComplete THEN 400
    ELSE 200

\* the handler up to the call of generateFilledPDF or createSummaryPDF
ExportRequest(sid) ==
    /\ UNCHANGED <<NVIDIA_API_KEY, args, result, created, sessions, heap, files,
                   uploadPending, chatPending, deletePending>>
    /\ IF ExportStatus(sid) # 200
       THEN UNCHANGED <<exportPending, nreq>>
       ELSE /\ Receive
            /\ exportPending' = exportPending \cup
                   {[req |-> nreq', sid |-> sid, err |-> FALSE,
                     stage |-> IF heap[sid].originalFilePath # NoPath
                               THEN "read" ELSE "write"]}

\* an export handler moves on to its next await
ExportStage(p, stage) ==
    /\ exportPending' = (exportPending \ {p}) \cup {[p EXCEPT !.stage = stage]}
    /\ UNCHANGED heap

\* an export handler returns
ExportReturn(p) ==
    /\ exportPending' = exportPending \ {p}
    /\ heap' = Collect(heap, sessions', Refs')

\* generateFilledPDF: fs.readFile(originalFilePath); when it rejects, the
\* handler answers 500
ExportRead(p) ==
    /\ p.stage = "read"
    /\ UNCHANGED <<NVIDIA_API_KEY, args, result, created, sessions, files, uploadPending,
                   chatPending, deletePending, nreq>>
    /\ IF heap[p.sid].originalFilePath \in files
       THEN ExportStage(p, "write")
       ELSE ExportReturn(p)

\* generateFilledPDF after the read, or createSummaryPDF: the document is
\* filled and written to outputPath, or the fill throws and the handler
\* answers 500
ExportWrite(p, filled) ==
    /\ p.stage = "write"
    /\ UNCHANGED <<NVIDIA_API_KEY, args, result, created, sessions, uploadPending,
                   chatPending, deletePending, nreq>>
    /\ IF filled
       THEN /\ files' = files \cup {OutputPath(p.sid)}
            /\ ExportStage(p, "send")
       ELSE /\ UNCHANGED files
            /\ ExportReturn(p)

\* res.download calls back, with err when the transfer failed
ExportSend(p, err) ==
    /\ p.stage = "send"
    /\ OutputPath(p.sid) \notin files => err
    /\ exportPending' = (exportPending \ {p}) \cup
                             {[p EXCEPT !.stage = "unlinkPdf", !.err = err]}
    /\ UNCHANGED <<NVIDIA_API_KEY, args, result, created, sessions, heap, files,
                   uploadPending, chatPending, deletePending, nreq>>

\* the callback's fs.unlink(pdfPath); a rejection ends the cleanup
ExportUnlinkPdf(p) ==
    /\ p.stage = "unlinkPdf"
    /\ UNCHANGED <<NVIDIA_API_KEY, args, result, created, sessions, uploadPending,
                   chatPending, deletePending, nreq>>
    /\ IF OutputPath(p.sid) \in files
       THEN /\ files' = files \ {OutputPath(p.sid)}
            /\ ExportStage(p, IF heap[p.sid].originalFilePath # NoPath
                              THEN "unlinkOrig" ELSE "delete")
       ELSE /\ UNCHANGED files
            /\ ExportReturn(p)

\* the callback's fs.unlink(session.originalFilePath); a rejection ends the
\* cleanup
ExportUnlinkOrig(p) ==
    /\ p.stage = "unlinkOrig"
    /\ UNCHANGED <<NVIDIA_API_KEY, args, result, created, sessions, uploadPending,
                   chatPending, deletePending, nreq>>
    /\ IF heap[p.sid].originalFilePath \in files
       THEN /\ files' = files \ {heap[p.sid].originalFilePath}
            /\ ExportStage(p, "delete")
       ELSE /\ UNCHANGED files
            /\ ExportReturn(p)

\* the callback's sessionStore.deleteSession(sessionId)
ExportDelete(p) ==
    /\ p.stage = "delete"
    /\ sessions' = deleteSession(sessions, p.sid)
    /\ UNCHANGED <<NVIDIA_API_KEY, args, result, created, files, uploadPending,
                   chatPending, deletePending, nreq>>
    /\ ExportReturn(p)

(* --------------------- DELETE /session/:sessionId --------------------- *)

\* the handler up to its fs.unlink, or all of it when there is no file
DeleteRequest(sid) ==
    /\ sid # NoId
    /\ UNCHANGED <<NVIDIA_API_KEY, args, result, created, files, uploadPending,
                   chatPending, exportPending>>
    /\ IF hasSession(sid) /\ heap[sid].originalFilePath # NoPath
       THEN /\ Receive
            /\ deletePending' = deletePending \cup
                   {[req |-> nreq', sid |-> sid, stage |-> "unlink"]}
            /\ UNCHANGED <<sessions, heap>>
       ELSE /\ sessions' = deleteSession(sessions, sid)
            /\ UNCHANGED <<deletePending, nreq>>
            /\ heap' = Collect(heap, sessions', Refs')

\* fs.unlink(session.originalFilePath); a rejection is logged and ignored
DeleteUnlink(p) ==
    /\ p.stage = "unlink"
    /\ files' = files \ {heap[p.sid].originalFilePath}
    /\ deletePending' = (deletePending \ {p}) \cup
                             {[p EXCEPT !.stage = "delete"]}
    /\ UNCHANGED <<NVIDIA_API_KEY, args, result, created, sessions, heap, uploadPending,
                   chatPending, exportPending, nreq>>

\* sessionStore.deleteSession(sessionId) and the response
DeleteFinish(p) ==
    /\ p.stage = "delete"
    /\ sessions' = deleteSession(sessions, p.sid)
    /\ deletePending' = deletePending \ {p}
    /\ UNCHANGED <<NVIDIA_API_KEY, args, result, created, files, uploadPending,
                   chatPending, exportPending, nreq>>
    /\ heap' = Collect(heap, sessions', Refs')

(* ------------------------- the 30-minute sweep ------------------------ *)

\* the sessions whose createdAt is more than an hour old are the k oldest
\* ones: those that are still in the Map are dropped
cleanupOldSessions(k) ==
    /\ \E sid \in sessions : sid <= k
    /\ sessions' = {sid \in sessions : sid > k}
    /\ UNCHANGED <<NVIDIA_API_KEY, args, result, created, files, uploadPending,
                   chatPending, exportPending, deletePending, nreq>>
    /\ heap' = Collect(heap, sessions', Refs')

(* --------------------------- specifications --------------------------- *)

Intake ==
    \/ UploadFailed
    \/ \E formSchema \in Schemas : UploadForm(formSchema)
    \/ \E p \in uploadPending : \E outcome \in LLMOutcomes : UploadFinish(p, outcome)

Conversation ==
    \/ \E sid \in ClientIds : \E message \in Messages : ChatRequest(sid, message)
    \/ \E p \in chatPending : \E outcome \in LLMOutcomes : ChatFinish(p, outcome)
    \/ \E sid \in ClientIds : FormState(sid)

Export ==
    \/ \E sid \in ClientIds : ExportRequest(sid)
    \/ \E p \in exportPending : ExportRead(p)
    \/ \E p \in exportPending : \E filled \in BOOLEAN : ExportWrite(p, filled)
    \/ \E p \in exportPending : \E err \in BOOLEAN : ExportSend(p, err)
    \/ \E p \in exportPending : ExportUnlinkPdf(p)
    \/ \E p \in exportPending : ExportUnlinkOrig(p)
    \/ \E p \in exportPending : ExportDelete(p)

Disposal ==
    \/ \E sid \in ClientIds : DeleteRequest(sid)
    \/ \E p \in deletePending : DeleteUnlink(p)
    \/ \E p \in deletePending : DeleteFinish(p)
    \/ \E k \in 1..MaxSessions : cleanupOldSessions(k)

\* the whole server
Next == Intake \/ Conversation \/ Export \/ Disposal

Spec == Init /\ [][Next]_vars

\* an answer the validator accepts for a field of the given type
ValidAnswer(type) == IF type = "email" THEN MailMsg ELSE WordMsg

\* the session object sid after /upload-form and the first i valid answers
\* to /chat, each question generated by the failure branch; the entries of
\* the k-th request from the end carry the tag -k
RECURSIVE Conversed(_, _, _)
Conversed(sid, formSchema, i) ==
    LET fields == formSchema.fields
        n == Len(fields)
        s == {sid}
    IN  IF i = 0
        THEN LET h0 == setOriginalFilePath(s, createSession(<<>>, sid, formSchema),
                                           sid, UploadPath(sid))
             IN  addMessage(s, h0, sid, "assistant",
                            generateNextQuestion(h0[sid], 0, [kind |-> "fail"]),
                            0 - n - 1)
        ELSE LET h0 == Conversed(sid, formSchema, i - 1)
                 message == ValidAnswer(FieldAt(fields, i - 1).type)
                 req == i - n - 1
                 h1 == addMessage(s, h0, sid, "user", [text |-> message], req)
                 h2 == updateField(s, h1, sid, FieldAt(fields, i - 1).id, message)
                 h3 == setCurrentFieldIndex(s, h2, sid, i)
                 h4 == markComplete(s, h3, sid)
             IN  IF i >= n
                 THEN addMessage(s, h4, sid, "assistant", CompleteReply, req)
                 ELSE addMessage(s, h3, sid, "assistant",
                                 generateNextQuestion(h3[sid], i, [kind |-> "fail"]),
                                 req)

\* the server with one session whose form has just been completed
InitCompleted ==
    /\ NVIDIA_API_KEY = "nvapi-key"
    /\ created = 1
    /\ sessions = {1}
    /\ \E formSchema \in Schemas :
          heap = Conversed(1, formSchema, Len(formSchema.fields))
    /\ files = {UploadPath(1)}
    /\ uploadPending = {}
    /\ chatPending = {}
    /\ exportPending = {}
    /\ deletePending = {}
    /\ nreq = 0
    /\ NoCall

\* exports, deletes and sweeps of a completed session
NextDisposal == Export \/ Disposal

SpecDisposal == InitCompleted /\ [][NextDisposal]_vars

(* --------------------------- field extraction ------------------------- *)

UpperCase ==
    <<"A", "B", "C", "D", "E", "F", "G", "H", "I", "J", "K", "L", "M",
      "N", "O", "P", "Q", "R", "S", "T", "U", "V", "W", "X", "Y", "Z">>

LowerCase ==
    <<"a", "b", "c", "d", "e", "f", "g", "h", "i", "j", "k", "l", "m",
      "n", "o", "p", "q", "r", "s", "t", "u", "v", "w", "x", "y", "z">>

IsUpper(c) == \E i \in 1..Len(UpperCase) : UpperCase[i] = c

IsLetter(c) == IsUpper(c) \/ \E i \in 1..Len(LowerCase) : LowerCase[i] = c

\* \w
IsWordChar(c) == IsLetter(c) \/ IsDigit(c) \/ c = "_"

\* String.toLowerCase
LowerChar(c) ==
    IF IsUpper(c)
    THEN LowerCase[CHOOSE i \in 1..Len(UpperCase) : UpperCase[i] = c]
    ELSE c

toLowerCase(v) == [k \in 1..Len(v) |-> LowerChar(v[k])]

Least(S) == CHOOSE k \in S : \A j \in S : k <= j

Greatest(S) == CHOOSE k \in S : \A j \in S : k >= j

\* String.trim
trim(v) ==
    LET kept == {k \in 1..Len(v) : ~IsSpace(v[k])}
    IN  IF kept = {} THEN <<>> ELSE SubSeq(v, Least(kept), Greatest(kept))

\* v without its first n characters
Drop(v, n) == SubSeq(v, n + 1, Len(v))

\* text.split('\n')
RECURSIVE splitLines(_)
splitLines(v) ==
    LET breaks == {k \in 1..Len(v) : v[k] = "\n"}
    IN  IF breaks = {}
        THEN <<v>>
        ELSE <<SubSeq(v, 1, Least(breaks) - 1)>>
                \o splitLines(Drop(v, Least(breaks)))

\* s.split(/\s+/)
RECURSIVE splitSpaces(_)
splitSpaces(v) ==
    LET spaces == {k \in 1..Len(v) : IsSpace(v[k])}
        first == Least(spaces)
        rest == {k \in first..Len(v) : ~IsSpace(v[k])}
    IN  IF spaces = {}
        THEN <<v>>
        ELSE <<SubSeq(v, 1, first - 1)>>
                \o splitSpaces(IF rest = {} THEN <<>> ELSE Drop(v, Least(rest) - 1))

\* words.join(' ')
RECURSIVE join(_)
join(ws) ==
    IF Len(ws) = 0 THEN <<>>
    ELSE IF Len(ws) = 1 THEN ws[1]
    ELSE ws[1] \o <<" ">> \o join(Tail(ws))

\* haystack.includes(needle)
includes(haystack, needle) ==
    \E i \in 1..(Len(haystack) + 1) :
        /\ i + Len(needle) - 1 <= Len(haystack)
        /\ \A k \in 1..Len(needle) : haystack[i + k - 1] = needle[k]

\* the length of the longest prefix of v whose characters are all in set
RECURSIVE LeadingRun(_, _)
LeadingRun(v, set) ==
    IF Len(v) > 0 /\ v[1] \in set THEN 1 + LeadingRun(Tail(v), set) ELSE 0

\* the length of the longest suffix of v whose characters are all in set
RECURSIVE TrailingRun(_, _)
TrailingRun(v, set) ==
    IF Len(v) > 0 /\ v[Len(v)] \in set
    THEN 1 + TrailingRun(SubSeq(v, 1, Len(v) - 1), set)
    ELSE 0

\* the characters \s stands for
Spaces == {" ", "\t", "\n", "\r"}

\* a keyword of a pattern, from its k-th element on, matches v from position
\* i on, case-insensitively: the position after the match, or 0 when there
\* is no match; \s* takes all the white space there is, what follows it in
\* every keyword being a letter
RECURSIVE MatchKeyword(_, _, _, _)
MatchKeyword(keyword, k, v, i) ==
    IF k > Len(keyword) THEN i
    ELSE IF keyword[k] = "\\s*"
    THEN MatchKeyword(keyword, k + 1, v, i + LeadingRun(Drop(v, i - 1), Spaces))
    ELSE IF i <= Len(v) /\ LowerChar(v[i]) = keyword[k]
    THEN MatchKeyword(keyword, k + 1, v, i + 1)
    ELSE 0

\* \b before position i and \b before position j of v, where v[i] and
\* v[j - 1] are letters
WordStarts(v, i) == i = 1 \/ ~IsWordChar(v[i - 1])

WordEnds(v, j) == j > Len(v) \/ ~IsWordChar(v[j])

\* /\b(k1|k2|...)\b/i at position i of v: the position after the match of
\* the first alternative that matches there, or 0
MatchAt(alternatives, v, i) ==
    LET ends == [a \in 1..Len(alternatives) |->
                    MatchKeyword(alternatives[a], 1, v, i)]
        ok == {a \in 1..Len(alternatives) :
                  ends[a] # 0 /\ WordStarts(v, i) /\ WordEnds(v, ends[a])}
    IN  IF ok = {} THEN 0 ELSE ends[Least(ok)]

\* pattern.test(v)
test(alternatives, v) ==
    \E i \in 1..Len(v) : MatchAt(alternatives, v, i) # 0

\* v.match(pattern)[0], for a v the pattern matches: the leftmost match
match(alternatives, v) ==
    LET i == Least({k \in 1..Len(v) : MatchAt(alternatives, v, k) # 0})
    IN  SubSeq(v, i, MatchAt(alternatives, v, i) - 1)

\* fieldPatterns: each pattern is /\b(k1|k2|...)\b/i; its alternatives in
\* order, each a sequence of characters in which "\\s*" is the regular
\* expression's \s*
fieldPatterns ==
    <<[type |-> "name", alternatives |-> <<
          <<"n", "a", "m", "e">>,
          <<"f", "u", "l", "l", "\\s*", "n", "a", "m", "e">>,
          <<"f", "i", "r", "s", "t", "\\s*", "n", "a", "m", "e">>,
          <<"l", "a", "s", "t", "\\s*", "n", "a", "m", "e">>,
          <<"m", "i", "d", "d", "l", "e", "\\s*", "n", "a", "m", "e">>,
          <<"a", "p", "p", "l", "i", "c", "a", "n", "t", "\\s*", "n", "a", "m", "e">>,
          <<"s", "t", "u", "d", "e", "n", "t", "\\s*", "n", "a", "m", "e">>,
          <<"p", "a", "r", "e", "n", "t", "\\s*", "n", "a", "m", "e">>,
          <<"g", "u", "a", "r", "d", "i", "a", "n", "\\s*", "n", "a", "m", "e">>,
          <<"s", "u", "r", "n", "a", "m", "e">>,
          <<"g", "i", "v", "e", "n", "\\s*", "n", "a", "m", "e">>>>],
      [type |-> "email", alternatives |-> <<
          <<"e", "m", "a", "i", "l">>,
          <<"e", "-", "m", "a", "i", "l">>,
          <<"e", "m", "a", "i", "l", "\\s*", "a", "d", "d", "r", "e", "s", "s">>,
          <<"e", "l", "e", "c", "t", "r", "o", "n", "i", "c", "\\s*", "m", "a", "i", "l">>>>],
      [type |-> "phone", alternatives |-> <<
          <<"p", "h", "o", "n", "e">>,
          <<"t", "e", "l", "e", "p", "h", "o", "n", "e">>,
          <<"m", "o", "b", "i", "l", "e">>,
          <<"c", "e", "l", "l">>,
          <<"c", "o", "n", "t", "a", "c", "t", "\\s*", "n", "u", "m", "b", "e", "r">>,
          <<"p", "h", "o", "n", "e", "\\s*", "n", "u", "m", "b", "e", "r">>,
          <<"t", "e", "l">>,
          <<"c", "o", "n", "t", "a", "c", "t", "\\s*", "n", "o">>>>],
      [type |-> "address", alternatives |-> <<
          <<"a", "d", "d", "r", "e", "s", "s">>,
          <<"s", "t", "r", "e", "e", "t">>,
          <<"r", "e", "s", "i", "d", "e", "n", "c", "e">>,
          <<"l", "o", "c", "a", "t", "i", "o", "n">>,
          <<"c", "i", "t", "y">>,
          <<"s", "t", "a", "t", "e">>,
          <<"p", "r", "o", "v", "i", "n", "c", "e">>,
          <<"z", "i", "p">>,
          <<"p", "o", "s", "t", "a", "l", "\\s*", "c", "o", "d", "e">>,
          <<"c", "o", "u", "n", "t", "r", "y">>,
          <<"p", "i", "n", "\\s*", "c", "o", "d", "e">>>>],
      [type |-> "date", alternatives |-> <<
          <<"d", "a", "t", "e">>,
          <<"d", "o", "b">>,
          <<"b", "i", "r", "t", "h", "\\s*", "d", "a", "t", "e">>,
          <<"d", "a", "t", "e", "\\s*", "o", "f", "\\s*", "b", "i", "r", "t", "h">>,
          <<"a", "d", "m", "i", "s", "s", "i", "o", "n", "\\s*", "d", "a", "t", "e">>,
          <<"e", "n", "r", "o", "l", "l", "m", "e", "n", "t", "\\s*", "d", "a", "t", "e">>,
          <<"y", "e", "a", "r">>,
          <<"m", "o", "n", "t", "h">>,
          <<"d", "a", "y">>>>],
      [type |-> "ssn", alternatives |-> <<
          <<"s", "s", "n">>,
          <<"s", "o", "c", "i", "a", "l", "\\s*", "s", "e", "c", "u", "r", "i", "t", "y">>,
          <<"t", "a", "x", "\\s*", "i", "d">>,
          <<"n", "a", "t", "i", "o", "n", "a", "l", "\\s*", "i", "d">>,
          <<"i", "d", "\\s*", "n", "u", "m", "b", "e", "r">>,
          <<"i", "d", "e", "n", "t", "i", "f", "i", "c", "a", "t", "i", "o", "n">>>>],
      [type |-> "gender", alternatives |-> <<
          <<"g", "e", "n", "d", "e", "r">>,
          <<"s", "e", "x">>,
          <<"m", "a", "l", "e">>,
          <<"f", "e", "m", "a", "l", "e">>>>],
      [type |-> "age", alternatives |-> <<
          <<"a", "g", "e">>,
          <<"y", "e", "a", "r", "s", "\\s*", "o", "l", "d">>>>],
      [type |-> "grade", alternatives |-> <<
          <<"g", "r", "a", "d", "e">>,
          <<"c", "l", "a", "s", "s">>,
          <<"s", "t", "a", "n", "d", "a", "r", "d">>,
          <<"l", "e", "v", "e", "l">>,
          <<"y", "e", "a", "r">>>>],
      [type |-> "school", alternatives |-> <<
          <<"s", "c", "h", "o", "o", "l">>,
          <<"i", "n", "s", "t", "i", "t", "u", "t", "i", "o", "n">>,
          <<"c", "o", "l", "l", "e", "g", "e">>,
          <<"u", "n", "i", "v", "e", "r", "s", "i", "t", "y">>,
          <<"p", "r", "e", "v", "i", "o", "u", "s", "\\s*", "s", "c", "h", "o", "o", "l">>>>],
      [type |-> "parent", alternatives |-> <<
          <<"p", "a", "r", "e", "n", "t">>,
          <<"f", "a", "t", "h", "e", "r">>,
          <<"m", "o", "t", "h", "e", "r">>,
          <<"g", "u", "a", "r", "d", "i", "a", "n">>,
          <<"e", "m", "e", "r", "g", "e", "n", "c", "y", "\\s*", "c", "o", "n", "t", "a", "c", "t">>>>],
      [type |-> "occupation", alternatives |-> <<
          <<"o", "c", "c", "u", "p", "a", "t", "i", "o", "n">>,
          <<"p", "r", "o", "f", "e", "s", "s", "i", "o", "n">>,
          <<"j", "o", "b">>,
          <<"e", "m", "p", "l", "o", "y", "m", "e", "n", "t">>,
          <<"w", "o", "r", "k">>>>],
      [type |-> "income", alternatives |-> <<
          <<"i", "n", "c", "o", "m", "e">>,
          <<"s", "a", "l", "a", "r", "y">>,
          <<"a", "n", "n", "u", "a", "l", "\\s*", "i", "n", "c", "o", "m", "e">>>>],
      [type |-> "religion", alternatives |-> <<
          <<"r", "e", "l", "i", "g", "i", "o", "n">>,
          <<"c", "a", "s", "t", "e">>,
          <<"c", "a", "t", "e", "g", "o", "r", "y">>>>],
      [type |-> "nationality", alternatives |-> <<
          <<"n", "a", "t", "i", "o", "n", "a", "l", "i", "t", "y">>,
          <<"c", "i", "t", "i", "z", "e", "n", "s", "h", "i", "p">>,
          <<"c", "o", "u", "n", "t", "r", "y", "\\s*", "o", "f", "\\s*", "o", "r", "i", "g", "i", "n">>>>],
      [type |-> "signature", alternatives |-> <<
          <<"s", "i", "g", "n", "a", "t", "u", "r", "e">>,
          <<"s", "i", "g", "n", "\\s*", "h", "e", "r", "e">>,
          <<"a", "p", "p", "l", "i", "c", "a", "n", "t", "\\s*", "s", "i", "g", "n", "a", "t", "u", "r", "e">>,
          <<"p", "a", "r", "e", "n", "t", "\\s*", "s", "i", "g", "n", "a", "t", "u", "r", "e">>>>],
      [type |-> "checkbox", alternatives |-> <<
          <<"c", "h", "e", "c", "k">>,
          <<"s", "e", "l", "e", "c", "t">>,
          <<"t", "i", "c", "k">>,
          <<"m", "a", "r", "k">>,
          <<"y", "e", "s">>,
          <<"n", "o">>,
          <<"a", "g", "r", "e", "e">>,
          <<"c", "o", "n", "s", "e", "n", "t">>>>],
      [type |-> "text", alternatives |-> <<
          <<"d", "e", "s", "c", "r", "i", "b", "e">>,
          <<"e", "x", "p", "l", "a", "i", "n">>,
          <<"p", "r", "o", "v", "i", "d", "e">>,
          <<"e", "n", "t", "e", "r">>,
          <<"w", "r", "i", "t", "e">>,
          <<"d", "e", "t", "a", "i", "l", "s">>,
          <<"i", "n", "f", "o", "r", "m", "a", "t", "i", "o", "n">>,
          <<"r", "e", "m", "a", "r", "k", "s">>,
          <<"c", "o", "m", "m", "e", "n", "t", "s">>>>]>>

\* skipWords: /^(section|part|...)$/i
skipWords ==
    {<<"s", "e", "c", "t", "i", "o", "n">>,
     <<"p", "a", "r", "t">>,
     <<"p", "a", "g", "e">>,
     <<"f", "o", "r", "m">>,
     <<"i", "n", "s", "t", "r", "u", "c", "t", "i", "o", "n", "s">>,
     <<"n", "o", "t", "e">>,
     <<"p", "l", "e", "a", "s", "e">>,
     <<"k", "i", "n", "d", "l", "y">>,
     <<"t", "o", "t", "a", "l">>,
     <<"s", "u", "b", "t", "o", "t", "a", "l">>,
     <<"a", "m", "o", "u", "n", "t">>,
     <<"t", "h", "e">>,
     <<"a", "n", "d">>,
     <<"o", "r">>,
     <<"f", "o", "r">>,
     <<"t", "o">>,
     <<"i", "n">>,
     <<"o", "f">>,
     <<"i", "s">>,
     <<"a", "r", "e">>,
     <<"w", "a", "s">>,
     <<"w", "e", "r", "e">>}

\* the characters of the class [:_\[\]()\.\s{2,}]
IndicatorChars == {":", "_", "[", "]", "(", ")", ".", "{", "2", ",", "}"} \cup Spaces

\* /[:_\[\]()\.\s{2,}]/.test(line)
hasFieldIndicator(line) == \E k \in 1..Len(line) : line[k] \in IndicatorChars

\* /[:\-_\.]{1,}$/.test(line) || /_{3,}/.test(line) || /\.{3,}/.test(line)
hasFieldEnding(line) ==
    \/ line[Len(line)] \in {":", "-", "_", "."}
    \/ includes(line, <<"_", "_", "_">>)
    \/ includes(line, <<".", ".", ".">>)

\* line.split(/[:_\[\]()\.\s{2,}]/)[0]
firstPiece(line) ==
    LET cuts == {k \in 1..Len(line) : line[k] \in IndicatorChars}
    IN  IF cuts = {} THEN line ELSE SubSeq(line, 1, Least(cuts) - 1)

\* label.replace(/^[\d\.\-\)]+\s*/, '')
removeNumbering(label) ==
    LET n == LeadingRun(label, {"0", "1", "2", "3", "4", "5", "6", "7", "8", "9",
                                ".", "-", ")"})
        rest == Drop(label, n)
    IN  IF n = 0 THEN label ELSE Drop(rest, LeadingRun(rest, Spaces))

\* label.replace(/\*+$/, '')
removeAsterisks(label) == SubSeq(label, 1, Len(label) - TrailingRun(label, {"*"}))

\* the label Strategy 1 takes from a line
labelOf(line) == removeAsterisks(removeNumbering(trim(firstPiece(line))))

\* the first type of fieldPatterns whose pattern matches the label or the
\* line, 'text' when none does
fieldTypeOf(label, line) ==
    LET hits == {p \in 1..Len(fieldPatterns) :
                    \/ test(fieldPatterns[p].alternatives, label)
                    \/ test(fieldPatterns[p].alternatives, line)}
    IN  IF hits = {} THEN "text" ELSE fieldPatterns[Least(hits)].type

\* a test that finds no marker in any line
isOptionalNever(line) == FALSE

\* /optional|if\s*applicable/i.test(line)
isOptional(line) ==
    \E i \in 1..Len(line) :
        \/ MatchKeyword(<<"o", "p", "t", "i", "o", "n", "a", "l">>, 1, line, i) # 0
        \/ MatchKeyword(<<"i", "f", "\\s*", "a", "p", "p", "l", "i", "c", "a",
                          "b", "l", "e">>, 1, line, i) # 0

\* coordinates: null
NoCoordinates == <<>>

\* findCoordinatesForLabel reads word.text of the first word it looks at
\* that has no such property: a TypeError
findCoordinatesForLabelThrows(label, words) ==
    LET labelWords == splitSpaces(toLowerCase(label))
        textless == {i \in 1..Len(words) : "text" \notin DOMAIN words[i]}
        hits == {i \in 1..Len(words) :
                    /\ "text" \in DOMAIN words[i]
                    /\ \E j \in 1..Len(labelWords) :
                          includes(toLowerCase(words[i].text), labelWords[j])}
    IN  /\ textless # {}
        /\ Len(labelWords) > 0
        /\ hits # {} => Least(textless) < Least(hits)

\* findCoordinatesForLabel, where it does not throw
findCoordinatesForLabel(label, words) ==
    LET labelWords == splitSpaces(toLowerCase(label))
        hits == {i \in 1..Len(words) :
                    \E j \in 1..Len(labelWords) :
                        includes(toLowerCase(words[i].text), labelWords[j])}
        word == words[Least(hits)]
    IN  IF Len(words) = 0 \/ hits = {}
        THEN NoCoordinates
        ELSE [x |-> word.bbox.x0,
              y |-> word.bbox.y0,
              width |-> word.bbox.x1 - word.bbox.x0,
              height |-> word.bbox.y1 - word.bbox.y0,
              inputX |-> word.bbox.x1 + 10,
              inputY |-> word.bbox.y0]

\* what the passes have so far: the fields pushed, the lower-cased labels in
\* foundFields, and whether an exception has ended the function
NoFields == [fields |-> <<>>, foundFields |-> {}, thrown |-> FALSE]

\* a push that numbers the field after the line it stands on
pushFieldByLine(acc, label, type, required, index, coordinates) ==
    [acc EXCEPT
        !.fields = Append(@, [id |-> "field_" \o ToString(index + 1),
                              label |-> label,
                              type |-> type,
                              required |-> required,
                              value |-> Null,
                              position |-> index,
                              coordinates |-> coordinates]),
        !.foundFields = @ \cup {toLowerCase(label)}]

\* fields.push({...}); foundFields.add(label.toLowerCase())
pushField(acc, label, type, required, index, coordinates) ==
    [acc EXCEPT
        !.fields = Append(@, [id |-> "field_" \o ToString(Len(@) + 1),
                              label |-> label,
                              type |-> type,
                              required |-> required,
                              value |-> Null,
                              position |-> index,
                              coordinates |-> coordinates]),
        !.foundFields = @ \cup {toLowerCase(label)}]

\* Strategy 1 on one line; index counts the lines from 0
strategy1Line(line, index, words, acc) ==
    LET label == labelOf(line)
    IN  IF Len(line) < 2 \/ Len(line) > 150 THEN acc
        ELSE IF ~(hasFieldIndicator(line) \/ hasFieldEnding(line)) THEN acc
        ELSE IF \/ Len(label) < 2 \/ Len(label) > 80
                \/ toLowerCase(label) \in acc.foundFields THEN acc
        ELSE IF toLowerCase(label) \in skipWords THEN acc
        ELSE IF findCoordinatesForLabelThrows(label, words)
        THEN [acc EXCEPT !.thrown = TRUE]
        ELSE pushField(acc, label, fieldTypeOf(label, line), ~isOptional(line),
                       index, findCoordinatesForLabel(label, words))

\* lines.forEach of Strategy 1, from the k-th line on
RECURSIVE strategy1(_, _, _, _)
strategy1(lines, k, words, acc) ==
    IF k > Len(lines) \/ acc.thrown THEN acc
    ELSE strategy1(lines, k + 1, words, strategy1Line(lines[k], k - 1, words, acc))

\* label.replace(/[:\-_\.\*]+$/, '').trim()
cleanLabel(label) ==
    trim(SubSeq(label, 1,
                Len(label) - TrailingRun(label, {":", "-", "_", ".", "*"})))

\* a JavaScript string as an element of an array: it has no property `text`
StringValue(v) == [chars |-> v]

\* the label Strategy 2 takes from a line that the pattern matches: the
\* match, or up to three words of the line from the first word on that the
\* pattern matches, when that is not the last word
contextLabel(alternatives, line) ==
    LET lineWords == splitSpaces(line)
        hits == {k \in 1..Len(lineWords) : test(alternatives, lineWords[k])}
        matchIndex == IF hits = {} THEN 0 - 1 ELSE Least(hits) - 1
        upTo == IF matchIndex + 3 < Len(lineWords)
                THEN matchIndex + 3 ELSE Len(lineWords)
    IN  cleanLabel(IF matchIndex >= 0 /\ matchIndex < Len(lineWords) - 1
                   THEN join(SubSeq(lineWords, matchIndex + 1, upTo))
                   ELSE trim(match(alternatives, line)))

\* Strategy 2 on one line, from the p-th pattern on: the first pattern that
\* matches the line and gives a label not yet found adds a field;
\* findCoordinatesForLabel is handed `words`, which at that place is the
\* array line.split(/\s+/) of strings
RECURSIVE strategy2Line(_, _, _, _)
strategy2Line(line, index, p, acc) ==
    LET pattern == fieldPatterns[p]
        label == contextLabel(pattern.alternatives, line)
        words == [k \in 1..Len(splitSpaces(line)) |->
                     StringValue(splitSpaces(line)[k])]
    IN  IF p > Len(fieldPatterns) THEN acc
        ELSE IF ~test(pattern.alternatives, line)
        THEN strategy2Line(line, index, p + 1, acc)
        ELSE IF Len(label) < 2 \/ toLowerCase(label) \in acc.foundFields
        THEN strategy2Line(line, index, p + 1, acc)
        ELSE IF findCoordinatesForLabelThrows(label, words)
        THEN [acc EXCEPT !.thrown = TRUE]
        ELSE pushField(acc, label, pattern.type, pattern.type # "text", index,
                       findCoordinatesForLabel(label, words))

\* lines.forEach of Strategy 2, from the k-th line on
RECURSIVE strategy2(_, _, _)
strategy2(lines, k, acc) ==
    IF k > Len(lines) \/ acc.thrown THEN acc
    ELSE strategy2(lines, k + 1,
                   IF Len(lines[k]) < 3 \/ Len(lines[k]) > 100
                   THEN acc
                   ELSE strategy2Line(lines[k], k - 1, 1, acc))

\* what is returned when nothing was detected, were there no fallback
genericFieldsNone == <<>>

\* the generic fields created when no field was detected
genericFields ==
    <<[id |-> "field_1", label |-> <<"F", "u", "l", "l", " ", "N", "a", "m", "e">>,
       type |-> "name", required |-> TRUE, value |-> Null,
       coordinates |-> NoCoordinates],
      [id |-> "field_2",
       label |-> <<"E", "m", "a", "i", "l", " ", "A", "d", "d", "r", "e", "s", "s">>,
       type |-> "email", required |-> TRUE, value |-> Null,
       coordinates |-> NoCoordinates],
      [id |-> "field_3",
       label |-> <<"P", "h", "o", "n", "e", " ", "N", "u", "m", "b", "e", "r">>,
       type |-> "phone", required |-> TRUE, value |-> Null,
       coordinates |-> NoCoordinates],
      [id |-> "field_4", label |-> <<"A", "d", "d", "r", "e", "s", "s">>,
       type |-> "address", required |-> FALSE, value |-> Null,
       coordinates |-> NoCoordinates],
      [id |-> "field_5", label |-> <<"D", "a", "t", "e">>,
       type |-> "date", required |-> TRUE, value |-> Null,
       coordinates |-> NoCoordinates]>>

\* text.split('\n').map(line => line.trim()).filter(line => line.length > 0)
NonEmpty(line) == Len(line) > 0

linesOf(text) ==
    SelectSeq([k \in 1..Len(splitLines(text)) |-> trim(splitLines(text)[k])],
              NonEmpty)

\* the two passes over the lines: the fields pushed, or that a pass threw
bothPasses(text, words) ==
    LET lines == linesOf(text)
        first == strategy1(lines, 1, words, NoFields)
    IN  IF ~first.thrown /\ Len(first.fields) < 5
        THEN strategy2(lines, 1, first)
        ELSE first

\* detectFormFields(text, words): the array it returns, or that it throws
detectFormFields(text, words) ==
    LET detected == bothPasses(text, words)
    IN  IF detected.thrown
        THEN [thrown |-> "TypeError"]
        ELSE IF Len(detected.fields) = 0
        THEN [returned |-> genericFields]
        ELSE [returned |-> detected.fields]

(* ------------------------- native form controls ----------------------- *)

\* String.toUpperCase, one character
UpperChar(c) ==
    IF \E i \in 1..Len(LowerCase) : LowerCase[i] = c
    THEN UpperCase[CHOOSE i \in 1..Len(LowerCase) : LowerCase[i] = c]
    ELSE c

\* .replace(/([A-Z])/g, ' $1')
RECURSIVE spaceCapitals(_)
spaceCapitals(v) ==
    IF Len(v) = 0 THEN <<>>
    ELSE (IF IsUpper(v[1]) THEN <<" ", v[1]>> ELSE <<v[1]>>)
            \o spaceCapitals(Tail(v))

\* .replace(/_/g, ' ')
spaceUnderscores(v) == [k \in 1..Len(v) |-> IF v[k] = "_" THEN " " ELSE v[k]]

\* .replace(/\s+/g, ' ')
normalizeSpaces(v) ==
    LET kept == SelectSeq([k \in 1..Len(v) |->
                              IF ~IsSpace(v[k]) THEN <<v[k]>>
                              ELSE IF k = 1 \/ ~IsSpace(v[k - 1]) THEN <<" ">>
                              ELSE <<>>],
                          NonEmpty)
    IN  [k \in 1..Len(kept) |-> kept[k][1]]

\* the display label of a control: its name cleaned up and capitalized
controlLabel(fieldName) ==
    LET label == trim(normalizeSpaces(spaceUnderscores(spaceCapitals(fieldName))))
    IN  IF Len(label) = 0 THEN label
        ELSE <<UpperChar(label[1])>> \o Tail(label)

\* one of the substrings is in v
includesAny(v, substrings) == \E s \in substrings : includes(v, s)

\* the type extractPDFFormFields gives a control
controlType(fieldName, fieldType) ==
    LET nameLower == toLowerCase(fieldName)
    IN  IF fieldType \in {"PDFCheckBox", "PDFRadioGroup"} THEN "checkbox"
        ELSE IF fieldType # "PDFTextField" THEN "text"
        ELSE IF includesAny(nameLower, {<<"e", "m", "a", "i", "l">>,
                                        <<"e", "-", "m", "a", "i", "l">>})
        THEN "email"
        ELSE IF includesAny(nameLower, {<<"p", "h", "o", "n", "e">>,
                                        <<"t", "e", "l">>,
                                        <<"m", "o", "b", "i", "l", "e">>})
        THEN "phone"
        ELSE IF includesAny(nameLower, {<<"d", "a", "t", "e">>,
                                        <<"d", "o", "b">>,
                                        <<"b", "i", "r", "t", "h">>})
        THEN "date"
        ELSE IF includes(nameLower, <<"n", "a", "m", "e">>) THEN "name"
        ELSE IF includesAny(nameLower, {<<"a", "d", "d", "r", "e", "s", "s">>,
                                        <<"s", "t", "r", "e", "e", "t">>,
                                        <<"c", "i", "t", "y">>,
                                        <<"s", "t", "a", "t", "e">>,
                                        <<"z", "i", "p">>})
        THEN "address"
        ELSE "text"

\* extractPDFFormFields for a document whose form has the given controls,
\* each with a name and the class of its pdf-lib object: null when the form
\* has none
extractPDFFormFields(formFields) ==
    IF Len(formFields) = 0
    THEN [null |-> TRUE]
    ELSE [returned |->
            [k \in 1..Len(formFields) |->
                [id |-> "field_" \o ToString(k),
                 label |-> controlLabel(formFields[k].name),
                 type |-> controlType(formFields[k].name, formFields[k].class),
                 required |-> TRUE,
                 value |-> Null,
                 position |-> k - 1,
                 coordinates |-> NoCoordinates,
                 pdfFieldName |-> formFields[k].name]]]

(* ------------------------ functions run on their own ------------------ *)

MaxLines == 2       \* lines of an extracted text
MaxControls == 2    \* controls of a native form

\* lines of extracted text: the two of the form "<label>: ____" of the
\* specification's scenario, one more of that form whose label is no keyword,
\* a keyword with a colon, a word, and white space
FullNameLine ==
    <<"F", "u", "l", "l", " ", "N", "a", "m", "e", ":", " ", "_", "_",
      "_", "_">>

EmailAddressLine ==
    <<"E", "m", "a", "i", "l", " ", "A", "d", "d", "r", "e", "s", "s",
      ":", " ", "_", "_", "_", "_">>

NotesLine == <<"N", "o", "t", "e", "s", ":", " ", "_", "_", "_", "_">>

EmailLine == <<"E", "m", "a", "i", "l", ":">>

HelloLine == <<"H", "e", "l", "l", "o">>

BlankLine == <<" ", " ">>

\* a line with an "optional" marker
OptionalLine ==
    <<"F", "a", "x", " ", "(", "o", "p", "t", "i", "o", "n", "a", "l", ")", ":">>

SampleLines ==
    {FullNameLine, EmailAddressLine, NotesLine, EmailLine, HelloLine, BlankLine,
     OptionalLine}

\* lines.join('\n')
RECURSIVE joinLines(_)
joinLines(ls) ==
    IF Len(ls) = 0 THEN <<>>
    ELSE IF Len(ls) = 1 THEN ls[1]
    ELSE ls[1] \o <<"\n">> \o joinLines(Tail(ls))

\* the texts extractTextFromImage and extractTextFromPDF hand over
Texts ==
    {joinLines(ls) : ls \in UNION {[1..n -> SampleLines] : n \in 0..MaxLines}}

\* the words of the OCR data, each with its bounding box
OcrWords ==
    <<[text |-> <<"F", "u", "l", "l">>,
       bbox |-> [x0 |-> 10, y0 |-> 20, x1 |-> 40, y1 |-> 30]],
      [text |-> <<"N", "o", "t", "e", "s", ":">>,
       bbox |-> [x0 |-> 490, y0 |-> 50, x1 |-> 532, y1 |-> 60]],
      [text |-> <<"E", "m", "a", "i", "l", ":">>,
       bbox |-> [x0 |-> 520, y0 |-> 80, x1 |-> 560, y1 |-> 90]]>>

\* ocrData?.words: undefined, so that the parameter takes its default [],
\* or the words
WordLists == {<<>>, OcrWords}

\* the controls of a native form: text controls whose names are a single
\* word, camelCase and underscore-separated, and a check box
SampleControls ==
    {[name |-> <<"E", "m", "a", "i", "l">>, class |-> "PDFTextField"],
     [name |-> <<"f", "i", "r", "s", "t", "N", "a", "m", "e">>,
      class |-> "PDFTextField"],
     [name |-> <<"f", "i", "r", "s", "t", "_", "n", "a", "m", "e">>,
      class |-> "PDFTextField"],
     [name |-> <<"A", "g", "r", "e", "e">>, class |-> "PDFCheckBox"]}

\* form.getFields()
ControlLists == UNION {[1..n -> SampleControls] : n \in 0..MaxControls}

\* the server is idle and holds nothing
ServerIdle ==
    /\ NVIDIA_API_KEY = ""
    /\ created = 0
    /\ sessions = {}
    /\ heap = <<>>
    /\ files = {}
    /\ uploadPending = {}
    /\ chatPending = {}
    /\ exportPending = {}
    /\ deletePending = {}
    /\ nreq = 0

server == <<NVIDIA_API_KEY, created, sessions, heap, files, uploadPending,
            chatPending, exportPending, deletePending, nreq>>

\* nothing has been returned or thrown yet
Pending == <<>>

\* processForm is about to hand a text to detectFormFields, or a document's
\* form to extractPDFFormFields
InitExtract ==
    /\ ServerIdle
    /\ result = Pending
    /\ \/ \E text \in Texts : \E words \in WordLists :
             args = [fn |-> "detectFormFields", text |-> text, words |-> words]
       \/ \E formFields \in ControlLists :
             args = [fn |-> "extractPDFFormFields", formFields |-> formFields]

DetectFormFields ==
    /\ args.fn = "detectFormFields"
    /\ result = Pending
    /\ result' = detectFormFields(args.text, args.words)
    /\ UNCHANGED <<server, args>>

ExtractPDFFormFields ==
    /\ args.fn = "extractPDFFormFields"
    /\ result = Pending
    /\ result' = extractPDFFormFields(args.formFields)
    /\ UNCHANGED <<server, args>>

NextExtract == DetectFormFields \/ ExtractPDFFormFields

SpecExtract == InitExtract /\ [][NextExtract]_vars

MaxValueLen == 2    \* length of the short values handed to the validator
MaxDialled == 10    \* length of the longest value made of digits and hyphens

\* the field types a schema can carry: those of fieldPatterns
FieldTypes == {fieldPatterns[k].type : k \in 1..Len(fieldPatterns)}

\* values of every shape the patterns tell apart
ValueSamples ==
    {<<"a", "@", "b", ".", "c", "o", "m">>,
     <<"a", " ", "b">>,
     <<"(", "5", "5", "5", ")", " ", "1", "2", "3", "-", "4", "5", "6", "7">>,
     <<"+", "1", " ", "5", "5", "5", " ", "1", "2", "3", " ", "4", "5", "6", "7">>,
     <<"5", "5", "5", " ", "1", "2", "3", "4", " ", " ">>,
     <<"5", "5", "5", "1", "2", "3", "4", "5", "6", "x">>,
     <<"1", "2", "/", "3", "1", "/", "2", "0", "2", "4">>,
     <<"1", "2", "3", "-", "4", "5", "-", "6", "7", "8", "9">>}

\* every value of up to MaxValueLen characters out of white space, a letter
\* and a digit
ShortValues ==
    UNION {[1..n -> {" ", "\t", "a", "1"}] : n \in 0..MaxValueLen}

\* every value of 9 to MaxDialled characters out of a digit and the hyphen
DialledValues == UNION {[1..n -> {"1", "-"}] : n \in 9..MaxDialled}

\* validateFieldValue is about to be called for a field's type and a value
InitValidate ==
    /\ ServerIdle
    /\ result = Pending
    /\ \/ \E type \in FieldTypes : \E value \in ValueSamples \cup ShortValues :
             args = [fn |-> "validateFieldValue", type |-> type, value |-> value]
       \/ \E value \in DialledValues :
             args = [fn |-> "validateFieldValue", type |-> "phone",
                     value |-> value]

ValidateFieldValue ==
    /\ args.fn = "validateFieldValue"
    /\ result = Pending
    /\ result' = validateFieldValue(args.type, args.value)
    /\ UNCHANGED <<server, args>>

SpecValidate == InitValidate /\ [][ValidateFieldValue]_vars

(* --------------------------- native form fill ------------------------- *)

\* a control of the loaded document: nothing typed, nothing checked
BlankControl(control) ==
    [name |-> control.name, class |-> control.class, text |-> <<>>,
     checked |-> FALSE]

\* the values at which a check box is checked
CheckedValues ==
    {<<"y", "e", "s">>,
     <<"t", "r", "u", "e">>,
     <<"1">>,
     <<"c", "h", "e", "c", "k", "e", "d">>,
     <<"x">>}

\* formFields.find(f => fieldName.includes(label) || label.includes(fieldName)),
\* both in lower case: the position of the first such control, or 0
findControl(controls, field) ==
    LET label == toLowerCase(field.label)
        fits == {k \in 1..Len(controls) :
                    \/ includes(toLowerCase(controls[k].name), label)
                    \/ includes(label, toLowerCase(controls[k].name))}
    IN  IF fits = {} THEN 0 ELSE Least(fits)

\* pdfField.setText(String(value)), or pdfField.check() at a checked value
setControl(control, value) ==
    IF control.class = "PDFTextField"
    THEN [control EXCEPT !.text = value]
    ELSE IF control.class = "PDFCheckBox" /\ toLowerCase(value) \in CheckedValues
    THEN [control EXCEPT !.checked = TRUE]
    ELSE control

\* the form before the fill: its controls and what was called on it so far
LoadedForm(controls) == [controls |-> controls, log |-> <<>>]

\* the callback of formSchema.fields.forEach for one field: the look-up of
\* the control and, where one is found, the assignment inside the inner
\* try, which the controls in throws.assign reject with an exception that
\* the inner catch logs
fillField(form, field, filledFields, throws) ==
    LET value == IF field.id \in DOMAIN filledFields
                 THEN filledFields[field.id] ELSE <<>>
        at == findControl(form.controls, field)
        found == [op |-> "find", field |-> field.id, control |-> at]
        assigned == [op |-> "assign", field |-> field.id, control |-> at]
    IN  IF value = <<>> THEN form
        ELSE IF at = 0
        THEN [form EXCEPT !.log = Append(@, found)]
        ELSE IF at \in throws.assign
        THEN [form EXCEPT !.log = @ \o <<found, assigned>>]
        ELSE [controls |-> [form.controls EXCEPT ![at] = setControl(@, value)],
              log |-> form.log \o <<found, assigned>>]

\* a forEach that gives up at the first assignment that is rejected
RECURSIVE fillFieldsUntilFailure(_, _, _, _, _)
fillFieldsUntilFailure(form, fields, filledFields, throws, k) ==
    IF k > Len(fields) THEN form
    ELSE IF /\ fields[k].id \in DOMAIN filledFields
            /\ filledFields[fields[k].id] # <<>>
            /\ findControl(form.controls, fields[k]) \in throws.assign
    THEN fillField(form, fields[k], filledFields, throws)
    ELSE fillFieldsUntilFailure(fillField(form, fields[k], filledFields, throws),
                                fields, filledFields, throws, k + 1)

\* formSchema.fields.forEach, from the k-th field on
RECURSIVE fillFields(_, _, _, _, _)
fillFields(form, fields, filledFields, throws, k) ==
    IF k > Len(fields) THEN form
    ELSE fillFields(fillField(form, fields[k], filledFields, throws),
                    fields, filledFields, throws, k + 1)

\* fillInteractivePDFForm: false for a document without controls; else the
\* fields are gone through and form.flatten() is called, which bakes the
\* controls into the pages, and true is returned; when flatten throws, the
\* outer catch returns false and the controls stay as they were assigned
fillInteractivePDFForm(controls, formSchema, filledFields, throws) ==
    IF Len(controls) = 0
    THEN [returned |-> FALSE, baked |-> controls, log |-> <<>>,
          flattened |-> FALSE]
    ELSE LET form == fillFields(LoadedForm(controls), formSchema.fields,
                                filledFields, throws, 1)
         IN  [returned |-> ~throws.flatten,
              baked |-> form.controls,
              log |-> Append(form.log, [op |-> "flatten"]),
              flattened |-> ~throws.flatten]

\* the answers recorded for a field of a type: an address for an email
\* field, any text that is not blank for the others
MailAnswer == <<"a", "@", "b", ".", "c", "o", "m">>

Recorded(type) ==
    CASE type = "email" -> {MailAnswer}
      [] type = "phone" -> {<<"5", "5", "5", "1", "2", "3", "4", "5", "6", "7">>}
      [] type = "date" -> {<<"1", "/", "2", "/", "2", "0", "2", "4">>}
      [] type = "ssn" -> {<<"1", "2", "3", "4", "5", "6", "7", "8", "9">>}
      [] OTHER -> {MailAnswer, <<"A", "n", "n">>, <<"y", "e", "s">>}

\* the forms of a document: its controls have distinct names
Forms ==
    {formFields \in ControlLists :
        /\ Len(formFields) > 0
        /\ \A j, k \in 1..Len(formFields) :
              formFields[j].name = formFields[k].name => j = k}

\* the answers of a completed session to the fields of a schema
AnswersTo(fields) ==
    {filledFields \in [{fields[k].id : k \in 1..Len(fields)}
                          -> UNION {Recorded(type) : type \in FieldTypes}] :
        \A k \in 1..Len(fields) :
            filledFields[fields[k].id] \in Recorded(fields[k].type)}

\* what pdf-lib can reject while a form is filled: the assignment to some of
\* its controls (a text longer than the control's maximum length, a control
\* without an appearance stream) and the flattening of the form
Rejections(formFields) ==
    [assign : SUBSET (1..Len(formFields)), flatten : BOOLEAN]

\* generateFilledPDF is about to fill the form of a document with the
\* answers of a completed session, whose schema was extracted from the same
\* form
InitFill ==
    /\ ServerIdle
    /\ result = Pending
    /\ \E formFields \in Forms :
          LET formSchema == [fields |-> extractPDFFormFields(formFields).returned,
                             isPDFForm |-> TRUE]
          IN  \E filledFields \in AnswersTo(formSchema.fields) :
              \E throws \in Rejections(formFields) :
                 args = [fn |-> "fillInteractivePDFForm",
                         formFields |-> formFields,
                         formSchema |-> formSchema,
                         filledFields |-> filledFields,
                         throws |-> throws]

FillInteractivePDFForm ==
    /\ args.fn = "fillInteractivePDFForm"
    /\ result = Pending
    /\ result' = fillInteractivePDFForm(
                    [k \in 1..Len(args.formFields) |->
                        BlankControl(args.formFields[k])],
                    args.formSchema, args.filledFields, args.throws)
    /\ UNCHANGED <<server, args>>

SpecFill == InitFill /\ [][FillInteractivePDFForm]_vars

(* ------------------------------ numbers ------------------------------- *)

\* the numbers of the page geometry are fractions num / den in lowest terms
\* with den > 0; den = 0 stands for what a division by zero yields
Abs(n) == IF n < 0 THEN -n ELSE n

RECURSIVE Gcd(_, _)
Gcd(a, b) == IF b = 0 THEN a ELSE Gcd(b, a % b)

Rat(n, d) ==
    LET g == IF n = 0 /\ d = 0 THEN 1 ELSE Gcd(Abs(n), Abs(d))
        sign == IF d < 0 THEN -1 ELSE 1
    IN  [num |-> (sign * n) \div g, den |-> (sign * d) \div g]

Num(n) == Rat(n, 1)

Plus(a, b) == Rat(a.num * b.den + b.num * a.den, a.den * b.den)

Minus(a, b) == Rat(a.num * b.den - b.num * a.den, a.den * b.den)

Times(a, b) == Rat(a.num * b.num, a.den * b.den)

Over(a, b) == Rat(a.num * b.den, a.den * b.num)

\* a > b
Exceeds(a, b) == a.num * b.den > b.num * a.den

(* ------------------------------ overlay ------------------------------- *)

\* the advance widths of the glyphs of Helvetica, in thousandths of the
\* font size, for the characters of the recorded values
GlyphWidth(c) ==
    CASE c \in {".", " ", "/", ","} -> 278
      [] c \in {"i", "l"} -> 222
      [] c = "@" -> 1015
      [] c \in {"A", "B", "E", "S"} -> 667
      [] c = "m" -> 833
      [] c \in {"c", "s", "y", "x"} -> 500
      [] OTHER -> 556

\* font.widthOfTextAtSize(text, size)
RECURSIVE GlyphSum(_)
GlyphSum(text) ==
    IF Len(text) = 0 THEN 0 ELSE GlyphWidth(text[1]) + GlyphSum(Tail(text))

widthOfTextAtSize(text, size) == Rat(GlyphSum(text) * size, 1000)

Ellipsis == <<".", ".", ".">>

\* the check mark drawn for a check box
CheckMark == <<"check mark">>

\* an if in place of the while: one character is removed at most
shortenOnce(displayText, fontSize, maxWidth) ==
    IF /\ Exceeds(widthOfTextAtSize(displayText \o Ellipsis, fontSize), maxWidth)
       /\ Len(displayText) > 0
    THEN SubSeq(displayText, 1, Len(displayText) - 1)
    ELSE displayText

\* the while loop: displayText.slice(0, -1) as long as the text with the
\* ellipsis is wider than maxWidth and characters are left
RECURSIVE shorten(_, _, _)
shorten(displayText, fontSize, maxWidth) ==
    IF /\ Exceeds(widthOfTextAtSize(displayText \o Ellipsis, fontSize), maxWidth)
       /\ Len(displayText) > 0
    THEN shorten(SubSeq(displayText, 1, Len(displayText) - 1), fontSize, maxWidth)
    ELSE displayText

\* displayText: the value, or what the loop leaves of it with the ellipsis
truncate(textValue, fontSize, maxWidth) ==
    IF Exceeds(widthOfTextAtSize(textValue, fontSize), maxWidth)
    THEN shorten(textValue, fontSize, maxWidth) \o Ellipsis
    ELSE textValue

\* formSchema.imageWidth taken as it is: zero when it is unknown
sourceSizeUnguarded(formSchema, name, pageSize) ==
    IF name \in DOMAIN formSchema THEN formSchema[name] ELSE 0

\* formSchema.imageWidth || width
sourceSize(formSchema, name, pageSize) ==
    IF name \in DOMAIN formSchema /\ formSchema[name] # 0
    THEN formSchema[name]
    ELSE pageSize

\* xPos and yPos of a field with coordinates
mapCoordinates(coordinates, formSchema, width, height) ==
    LET imageHeight == sourceSize(formSchema, "imageHeight", height)
        imageWidth == sourceSize(formSchema, "imageWidth", width)
        scaleX == Over(Num(width), Num(imageWidth))
        scaleY == Over(Num(height), Num(imageHeight))
    IN  [x |-> Times(Num(coordinates.inputX), scaleX),
         y |-> Minus(Num(height), Times(Num(coordinates.inputY), scaleY))]

\* a row numbering that counts only the fields that have a value
rowOfFilled(formSchema, filledFields, index) ==
    Cardinality({k \in 1..index :
                    /\ formSchema.fields[k].id \in DOMAIN filledFields
                    /\ filledFields[formSchema.fields[k].id] # <<>>})

\* the row of a field without coordinates: its index in the schema
rowOf(formSchema, filledFields, index) == index

\* xPos and yPos of a field without coordinates
estimatePosition(row, height) ==
    [x |-> Num(150), y |-> Num((height - 150) - row * 25)]

\* what the forEach callback draws for the field at index, counted from 0:
\* the drawText calls, none or one
drawField(formSchema, filledFields, index, width, height) ==
    LET field == formSchema.fields[index + 1]
        value == IF field.id \in DOMAIN filledFields
                 THEN filledFields[field.id] ELSE <<>>
        pos == IF field.coordinates # NoCoordinates
               THEN mapCoordinates(field.coordinates, formSchema, width, height)
               ELSE estimatePosition(rowOf(formSchema, filledFields, index),
                                     height)
        fontSize == 10
        maxWidth == Minus(Minus(Num(width), pos.x), Num(50))
    IN  IF value = <<>> THEN <<>>
        ELSE IF field.type = "checkbox"
        THEN IF toLowerCase(value) \in CheckedValues
             THEN <<[field |-> field.id, text |-> CheckMark, x |-> pos.x,
                     y |-> pos.y, size |-> 12, font |-> "Helvetica"]>>
             ELSE <<>>
        ELSE IF field.type = "signature"
        THEN <<[field |-> field.id, text |-> value, x |-> pos.x, y |-> pos.y,
                size |-> fontSize + 2, font |-> "HelveticaOblique"]>>
        ELSE <<[field |-> field.id,
                text |-> truncate(value, fontSize, maxWidth),
                x |-> pos.x, y |-> pos.y, size |-> fontSize,
                font |-> "Helvetica"]>>

\* fillScannedForm on a document whose first page has the given size: the
\* drawText calls on that page, in order, from the field at index on
RECURSIVE fillScannedForm(_, _, _, _, _)
fillScannedForm(formSchema, filledFields, index, width, height) ==
    IF index >= Len(formSchema.fields) THEN <<>>
    ELSE drawField(formSchema, filledFields, index, width, height)
            \o fillScannedForm(formSchema, filledFields, index + 1, width, height)

(* --------------------------- generateFilledPDF ------------------------ *)

\* the page pdfDoc.addPage([612, 792]) makes for an image
LetterWidth == 612
LetterHeight == 792

\* generateFilledPDF for a document of kind pdf or image, once it is read
\* and loaded: the controls of its form, the calls made on the form, whether
\* the form was flattened, whether fillScannedForm was called, and the
\* drawText calls it made on the first page
generateFilledPDF(document, formSchema, filledFields, throws) ==
    IF document.kind = "pdf"
    THEN LET filledInteractive ==
                 fillInteractivePDFForm(
                     [k \in 1..Len(document.controls) |->
                         BlankControl(document.controls[k])],
                     formSchema, filledFields, throws)
         IN  [controls |-> filledInteractive.baked,
              log |-> filledInteractive.log,
              flattened |-> filledInteractive.flattened,
              overlaid |-> ~filledInteractive.returned,
              drawn |-> IF filledInteractive.returned
                        THEN <<>>
                        ELSE fillScannedForm(formSchema, filledFields, 0,
                                             document.width, document.height)]
    ELSE [controls |-> <<>>,
          log |-> <<>>,
          flattened |-> FALSE,
          overlaid |-> TRUE,
          drawn |-> fillScannedForm(formSchema, filledFields, 0,
                                    LetterWidth, LetterHeight)]

\* the sizes of the first page of a PDF: letter and A4, in points
PageSizes == {[width |-> 612, height |-> 792], [width |-> 595, height |-> 842]}

\* what the OCR result tells about the size of the image, when it tells it:
\* zero, or the size in pixels
ImageSizes ==
    {[imageWidth |-> 0, imageHeight |-> 0],
     [imageWidth |-> 1224, imageHeight |-> 1584]}

\* the values generateFilledPDF can be handed for a schema: answers to some
\* of its fields; the export route hands over those of a completed session,
\* which has an answer to every field
RECURSIVE AnswersFrom(_, _)
AnswersFrom(fields, k) ==
    IF k > Len(fields) THEN {<<>>}
    ELSE LET rest == AnswersFrom(fields, k + 1)
         IN  rest \cup {(fields[k].id :> value) @@ filledFields :
                           value \in Recorded(fields[k].type),
                           filledFields \in rest}

AnswersToSome(fields) == AnswersFrom(fields, 1)

\* pdf-lib rejects nothing
NoRejection == [assign |-> {}, flatten |-> FALSE]

\* the documents without a form in which the text and the words were read: a
\* PDF hands over no words, an image its OCR words, if any
DocumentsOf(words) ==
    {[kind |-> "image", controls |-> <<>>]}
    \cup IF words # <<>> THEN {}
         ELSE {[kind |-> "pdf", controls |-> <<>>,
                width |-> size.width, height |-> size.height] :
                  size \in PageSizes}

\* the schema processForm makes of the detected fields of a document
SchemasOf(document, fields) ==
    LET schema == [fields |-> fields, isPDFForm |-> FALSE]
    IN  IF document.kind = "pdf" THEN {schema}
        ELSE {schema} \cup {schema @@ size : size \in ImageSizes}

\* generateFilledPDF is about to generate the document of a session: a PDF
\* with a form, filled with the schema extracted from its controls; a PDF
\* without a form, whose schema was detected in its text; or an image, whose
\* schema was detected in the OCR text, with the words or without them
InitGenerate ==
    /\ ServerIdle
    /\ result = Pending
    /\ \/ \E formFields \in Forms :
          \E filledFields \in
                AnswersToSome(extractPDFFormFields(formFields).returned) :
          \E throws \in Rejections(formFields) :
             args = [fn |-> "generateFilledPDF",
                     document |-> [kind |-> "pdf", controls |-> formFields,
                                   width |-> LetterWidth,
                                   height |-> LetterHeight],
                     formSchema |->
                         [fields |-> extractPDFFormFields(formFields).returned,
                          isPDFForm |-> TRUE],
                     filledFields |-> filledFields,
                     throws |-> throws]
       \/ \E words \in WordLists :
          \E text \in Texts :
             LET detected == detectFormFields(text, words)
             IN  /\ "returned" \in DOMAIN detected
                 /\ \E document \in DocumentsOf(words) :
                    \E formSchema \in SchemasOf(document, detected.returned) :
                    \E filledFields \in AnswersToSome(formSchema.fields) :
                       args = [fn |-> "generateFilledPDF",
                               document |-> document,
                               formSchema |-> formSchema,
                               filledFields |-> filledFields,
                               throws |-> NoRejection]

GenerateFilledPDF ==
    /\ args.fn = "generateFilledPDF"
    /\ result = Pending
    /\ result' = generateFilledPDF(args.document, args.formSchema,
                                   args.filledFields, args.throws)
    /\ UNCHANGED <<server, args>>

SpecGenerate == InitGenerate /\ [][GenerateFilledPDF]_vars

(* -------------------------------- client ------------------------------ *)

\* handleSendMessage once the response data to message has arrived: the
\* preview map after setFilledFields
handleSendMessage(filledFields, message, data) ==
    IF /\ "validationError" \notin DOMAIN data
       /\ "fieldId" \in DOMAIN data
       /\ data.fieldId # Null
    THEN (data.fieldId :> message) @@ filledFields
    ELSE filledFields

\* the message of the chat request req, as the history h holds it
MessageOf(h, req) ==
    LET i == CHOOSE i \in 1..Len(h) : h[i].req = req /\ h[i].role = "user"
    IN  h[i].content.text

\* the preview map of the client that has received the replies of the
\* history h from the k-th entry on, in the order in which they were sent;
\* the reply to the upload starts it with setFilledFields({})
RECURSIVE previewAfter(_, _, _)
previewAfter(h, k, filledFields) ==
    IF k > Len(h) THEN filledFields
    ELSE previewAfter(h, k + 1,
            IF /\ h[k].role = "assistant"
               /\ \E i \in 1..Len(h) : h[i].req = h[k].req /\ h[i].role = "user"
            THEN handleSendMessage(filledFields, MessageOf(h, h[k].req),
                                   h[k].content)
            ELSE filledFields)

(* ------------------------------- claims ------------------------------- *)

Fields(sid) == heap[sid].formSchema.fields

Cursor(sid) == heap[sid].currentFieldIndex

History(sid) == heap[sid].conversationHistory

Collecting(sid) == Cursor(sid) < Len(Fields(sid))

\* the sessions that are in the Map before and after the step
Staying == sessions \cap (sessions')

\* the step is a chat request taken to session sid: its history gains the
\* user's entry
Answered(sid) ==
    /\ Len(History(sid)') > Len(History(sid))
    /\ History(sid)'[Len(History(sid)) + 1].role = "user"

\* the answer of that request
Answer(sid) == History(sid)'[Len(History(sid)) + 1].content.text

\* the answer passes the validator for the field at the cursor
Validates(sid, message) ==
    validateFieldValue(FieldAt(Fields(sid), Cursor(sid)).type, message).valid

\* the step leaves cursor, values and complete of sid as they are
SameProgress(sid) ==
    /\ Cursor(sid)' = Cursor(sid)
    /\ heap'[sid].filledFields = heap[sid].filledFields
    /\ heap'[sid].isComplete = heap[sid].isComplete

\* C1: a chat answer taken to a session in Collecting (cursor = i < n) that
\* validates against field i records values[field_i.id] = answer, sets cursor
\* to i + 1 and sets complete to true iff i + 1 = n; the cursor of a session
\* changes in no other way: it never decreases and never skips, and it moves
\* only with such an answer.
C1_ValidAnswerAdvances ==
    [][\A sid \in Staying :
          /\ (Answered(sid) /\ Collecting(sid) /\ Validates(sid, Answer(sid)))
                => /\ Cursor(sid)' = Cursor(sid) + 1
                   /\ FieldAt(Fields(sid), Cursor(sid)).id
                          \in DOMAIN heap'[sid].filledFields
                   /\ heap'[sid].filledFields[FieldAt(Fields(sid), Cursor(sid)).id]
                          = Answer(sid)
                   /\ heap'[sid].isComplete
                          <=> (Cursor(sid) + 1 = Len(Fields(sid)))
          /\ Cursor(sid)' \in {Cursor(sid), Cursor(sid) + 1}
          /\ Cursor(sid)' = Cursor(sid) + 1
                => Answered(sid) /\ Collecting(sid) /\ Validates(sid, Answer(sid))
      ]_vars

\* C1 witness: a two-field session that two valid answers have driven to
\* cursor 2 and complete, with both values recorded
C1_Witness ==
    \E sid \in sessions :
        /\ Len(Fields(sid)) = 2
        /\ Cursor(sid) = 2
        /\ heap[sid].isComplete
        /\ DOMAIN heap[sid].filledFields = {"field_1", "field_2"}

\* C2: a chat answer that fails validation against the field at the cursor
\* leaves cursor, values and complete unchanged, and the reply, which the
\* history takes after the answer, re-prompts for that same field (same
\* fieldId, isComplete false) and carries the validator's reason; this holds
\* in every state, whatever was rejected before, and C1 holds of the answers
\* that follow.
C2_InvalidAnswerReprompts ==
    [][\A sid \in Staying :
          (Answered(sid) /\ Collecting(sid) /\ ~Validates(sid, Answer(sid)))
             => LET field == FieldAt(Fields(sid), Cursor(sid))
                    reason == validateFieldValue(field.type, Answer(sid)).message
                    said == History(sid)'[Len(History(sid)) + 2]
                IN  /\ SameProgress(sid)
                    /\ Len(History(sid)') = Len(History(sid)) + 2
                    /\ said.role = "assistant"
                    /\ said.content.fieldId = field.id
                    /\ said.content.isComplete = FALSE
                    /\ said.content.validationError = TRUE
                    /\ said.content.question
                          = <<reason, ". Please try again: ", field.label>>
                    /\ reason \in {"This field cannot be empty",
                                   "Please provide a valid email address"}
      ]_vars

\* C2 witness: an answer was rejected with a re-prompt for field_1 and a later
\* answer for field_1 was accepted
C2_Witness ==
    \E sid \in sessions :
        /\ \E i \in 1..Len(History(sid)) :
              /\ History(sid)[i].role = "assistant"
              /\ "validationError" \in DOMAIN History(sid)[i].content
              /\ History(sid)[i].content.fieldId = "field_1"
        /\ "field_1" \in DOMAIN heap[sid].filledFields
        /\ Cursor(sid) = 1

\* C3: in every reachable state of every existing session, 0 <= cursor <= n
\* with n >= 1 the number of schema fields, and complete is true if and only
\* if cursor = n.
C3_CursorAndComplete ==
    \A sid \in sessions :
        /\ Len(Fields(sid)) >= 1
        /\ Cursor(sid) \in 0..Len(Fields(sid))
        /\ heap[sid].isComplete <=> (Cursor(sid) = Len(Fields(sid)))

\* C3 witness: a session whose cursor has reached the field count and which
\* is complete
C3_Witness ==
    \E sid \in sessions :
        Cursor(sid) = Len(Fields(sid)) /\ heap[sid].isComplete

\* the entries of history h that request req left there
EntriesOf(h, req) == {i \in 1..Len(h) : h[i].req = req}

\* the step appends the entries tail to the history of sid
Appends(sid, tail) == History(sid)' = History(sid) \o tail

\* C4 as stated: a chat request to a session already in Complete is a no-op
\* that changes neither cursor, values, complete flag nor conversation
\* history, and the question-generation collaborator is not invoked.
C4_CompleteChatIsNoOp ==
    [][\A sid \in sessions : \A message \in Messages :
          (heap[sid].isComplete /\ ChatRequest(sid, message))
             => (heap' = heap /\ chatPending' = chatPending)
      ]_vars

\* C4 amended: no step changes cursor, values or complete flag of a session
\* in Complete; a chat request that reaches such a session (message given,
\* service configured) is nevertheless not a no-op: the message is appended
\* to the conversation history as a user entry and the question-generation
\* collaborator is invoked for it.
C4_CompleteChatKeepsProgress ==
    [][\A sid \in Staying :
          heap[sid].isComplete =>
             /\ SameProgress(sid)
             /\ \A message \in Messages :
                   (ChatRequest(sid, message) /\ ChatStatus(sid, message) = 200)
                      => /\ Appends(sid, <<[role |-> "user",
                                            content |-> [text |-> message],
                                            req |-> nreq']>>)
                         /\ chatPending' \ chatPending
                               = {[req |-> nreq', sid |-> sid,
                                   message |-> message,
                                   index |-> Cursor(sid)]}
      ]_vars

\* C4 witness: a complete session whose history holds a user entry that came
\* after the completion message, and the collaborator's reply to it
C4_Witness ==
    \E sid \in sessions :
        /\ heap[sid].isComplete
        /\ \E i \in 1..Len(History(sid)) : \E j \in 1..Len(History(sid)) :
              /\ i < j /\ j < Len(History(sid))
              /\ History(sid)[i].content = CompleteReply
              /\ History(sid)[j].role = "user"
              /\ History(sid)[j + 1].role = "assistant"
              /\ History(sid)[j + 1].req = History(sid)[j].req

\* each request's entries in the history of sid: the session's first entry
\* is the upload's question; a chat request has left its user entry alone
\* while its question is being generated, and its user entry and then its
\* assistant entry, no more, once it has replied
TwoEntriesEach(sid) ==
    LET h == History(sid)
    IN  \A i \in 1..Len(h) :
           LET mine == EntriesOf(h, h[i].req)
               waiting == \E p \in chatPending : p.req = h[i].req /\ p.sid = sid
           IN  IF h[i].role = "user"
               THEN \/ waiting /\ mine = {i}
                    \/ /\ ~waiting
                       /\ \E j \in (i + 1)..Len(h) :
                             mine = {i, j} /\ h[j].role = "assistant"
               ELSE /\ h[i].role = "assistant"
                    /\ \/ i = 1 /\ mine = {1}
                       \/ \E j \in 1..(i - 1) : h[j].role = "user" /\ j \in mine

\* the history of sid after the step is its history before it with at most
\* two entries appended
AppendOnly(sid) ==
    /\ Len(History(sid)') \in Len(History(sid))..(Len(History(sid)) + 2)
    /\ SubSeq(History(sid)', 1, Len(History(sid))) = History(sid)

\* C5: every chat transition appends exactly two entries to the session's
\* conversation history, the user's raw answer and then the assistant
\* message emitted for it, in that order, and the history is append-only:
\* no step reorders, truncates or edits what it holds.
C5_TwoEntriesAppendOnly ==
    /\ [](\A sid \in sessions : TwoEntriesEach(sid))
    /\ [][\A sid \in Staying :
             /\ AppendOnly(sid)
             /\ \A message \in Messages :
                   (ChatRequest(sid, message) /\ ChatStatus(sid, message) = 200)
                      => History(sid)'[Len(History(sid)) + 1]
                            = [role |-> "user", content |-> [text |-> message],
                               req |-> nreq']
             /\ \A p \in chatPending : \A outcome \in LLMOutcomes :
                   (p.sid = sid /\ ChatFinish(p, outcome))
                      => Appends(sid, <<[role |-> "assistant",
                                         content |-> generateNextQuestion(
                                                        heap[sid], p.index, outcome),
                                         req |-> p.req]>>)
         ]_vars

\* C5 witness: a history in which a chat request has left its user entry and,
\* once the collaborator had answered, its assistant entry
C5_Witness ==
    \E sid \in sessions :
        /\ Len(History(sid)) = 3
        /\ History(sid)[2].role = "user"
        /\ History(sid)[3].role = "assistant"
        /\ History(sid)[3].req = History(sid)[2].req
        /\ "validationError" \notin DOMAIN History(sid)[3].content
        /\ History(sid)[3].content # CompleteReply
        /\ chatPending = {}

\* C6 as stated: two chat requests for one session that overlap in time leave
\* a history that some sequential execution of the two leaves: no entry
\* comes between a request's user entry and the assistant entry that answers
\* it.
C6_RepliesFollowAnswers ==
    \A sid \in sessions :
        \A i \in 1..(Len(History(sid)) - 1) :
            History(sid)[i].role = "user"
               => /\ History(sid)[i + 1].role = "assistant"
                  /\ History(sid)[i + 1].req = History(sid)[i].req

\* no API key is configured: the variable is unset or still holds the
\* placeholder of .env.example
KeyMissing == NVIDIA_API_KEY \in {"", PlaceholderKey}

\* the last entry of the history of sid after the step
Said(sid) == History(sid)'[Len(History(sid)')].content

\* the fallback the failure branch builds for the session object as it is
\* when the call has failed
LocalFallback(sid) ==
    IF Collecting(sid)
    THEN LET field == FieldAt(Fields(sid), Cursor(sid))
         IN  [question |-> <<"Please provide your ", field.label, ".">>,
              fieldId |-> field.id,
              fieldLabel |-> field.label,
              fieldType |-> field.type,
              isComplete |-> FALSE,
              error |-> "Using fallback due to AI service error"]
    ELSE [question |-> <<"All fields have been filled! You can now export your form.">>,
          isComplete |-> TRUE]

\* C7 as stated: when the question-generation collaborator is unavailable,
\* be it that its call fails or that no API key is configured at all, a chat
\* request carrying a valid answer is processed and is not surfaced as an
\* error.
C7_ValidAnswerAlwaysProcessed ==
    \A sid \in sessions \cap KnownIds : \A message \in Messages :
        (Collecting(sid) /\ Validates(sid, message))
           => ChatStatus(sid, message) = 200

\* C7 amended: with an API key configured, a chat request carrying a valid
\* answer is processed (status 200, answer recorded, cursor advanced) and,
\* when the collaborator's call then fails, answered with the local fallback
\* for the session as it is at that moment; with no API key configured every
\* chat request that names a session and carries a message is refused with
\* status 503, whatever the session and the answer are.
C7_ProcessedUnlessKeyMissing ==
    /\ [](\A sid \in ClientIds \ {NoId} : \A message \in Messages \ {EmptyMsg} :
             /\ KeyMissing => ChatStatus(sid, message) = 503
             /\ (~KeyMissing /\ sid \in sessions) => ChatStatus(sid, message) = 200)
    /\ [][\A sid \in Staying :
             /\ \A message \in Messages :
                   (ChatRequest(sid, message) /\ ~KeyMissing
                       /\ Collecting(sid) /\ Validates(sid, message))
                      => /\ Cursor(sid)' = Cursor(sid) + 1
                         /\ heap'[sid].filledFields[
                               FieldAt(Fields(sid), Cursor(sid)).id] = message
             /\ \A p \in chatPending :
                   (p.sid = sid /\ ChatFinish(p, [kind |-> "fail"]))
                      => Said(sid) = LocalFallback(sid)
         ]_vars

\* C7 witness: the first answer of a two-field session was recorded and the
\* collaborator's call failed: the history ends with the fallback question
\* for the second field
C7_Witness ==
    \E sid \in sessions :
        /\ Cursor(sid) = 1
        /\ "field_1" \in DOMAIN heap[sid].filledFields
        /\ Len(History(sid)) = 3
        /\ History(sid)[2].role = "user"
        /\ History(sid)[3].content
              = [question |-> <<"Please provide your ", "name 2", ".">>,
                 fieldId |-> "field_2",
                 fieldLabel |-> "name 2",
                 fieldType |-> "name",
                 isComplete |-> FALSE,
                 error |-> "Using fallback due to AI service error"]

\* the outcomes in which the collaborator's answer cannot be parsed
Unparsed == {[kind |-> "text"], [kind |-> "badjson"]}

\* the handlers that await the collaborator, and the step in which one of
\* them, p, takes outcome
Asking == uploadPending \cup chatPending

Answers(p, outcome) ==
    \/ p \in uploadPending /\ UploadFinish(p, outcome)
    \/ p \in chatPending /\ ChatFinish(p, outcome)

C9_ExportOnlyWhenComplete ==
    /\ [](/\ \A p \in exportPending : heap[p.sid].isComplete
          /\ \A sid \in sessions :
                ~heap[sid].isComplete => ExportStatus(sid) = 400)
    /\ [][/\ \A sid \in ClientIds :
                ExportRequest(sid) =>
                   /\ UNCHANGED <<sessions, heap, files>>
                   /\ (sid \in sessions /\ ~heap[sid].isComplete)
                         => UNCHANGED exportPending
          /\ \A p \in exportPending' :
                (\A q \in exportPending : q.req # p.req)
                   => /\ p.sid \in sessions
                      /\ heap[p.sid].isComplete
                      /\ ExportRequest(p.sid)
         ]_vars

\* C9 witness: the fill engine has written the document of a complete
\* session and the export has got as far as sending it
C9_Witness ==
    \E p \in exportPending :
        /\ p.stage = "send"
        /\ heap[p.sid].isComplete
        /\ OutputPath(p.sid) \in files

\* C10 as stated: a session is destroyed by export only when the export has
\* succeeded: when the fill step throws or the delivery of the generated
\* document reports an error, the session, its recorded values and its
\* source document remain intact, so that the export can be retried.
C10_FailedExportKeepsSession ==
    [][\A p \in exportPending :
          (p.err /\ (ExportUnlinkPdf(p) \/ ExportUnlinkOrig(p) \/ ExportDelete(p)))
             => /\ sessions' = sessions
                /\ heap[p.sid].originalFilePath \in files
                      => heap[p.sid].originalFilePath \in files'
      ]_vars

\* the source document of the session that handler p works on
SourceOf(p) == heap[p.sid].originalFilePath

\* C11 as stated: under every interleaving of export and DELETE requests on
\* one session, the session's source document is released exactly once, a
\* second release attempt being a no-op and not an error (an export's
\* cleanup that finds the source document already released goes on to
\* delete the session, as it does after releasing it), and no export's
\* cleanup removes the generated file while another export of the session
\* is still sending it.
C11_ReleasedOnceNotWhileSending ==
    [][\A p \in exportPending :
          /\ (ExportUnlinkOrig(p) /\ SourceOf(p) \notin files)
                => [p EXCEPT !.stage = "delete"] \in exportPending'
          /\ (ExportUnlinkPdf(p) /\ OutputPath(p.sid) \notin files')
                => \A q \in exportPending \ {p} :
                      ~(q.sid = p.sid /\ q.stage = "send")
      ]_vars

\* C12 as stated: whenever a session is destroyed, by a successful export, by
\* DELETE or by the store's sweep, its source document is released with it:
\* in no reachable state is a session gone from the store while its uploaded
\* source file is still stored.
C12_NoFileWithoutSession ==
    \A sid \in 1..created :
        sid \notin sessions => UploadPath(sid) \notin files

\* the session ids a request can name that name no session: never issued,
\* or disposed since
Unknown == ClientIds \ ({NoId} \cup sessions)

\* C13 as stated: a chat, form-state or export request that names a session
\* id which was never created or has been disposed is answered with the
\* not-found condition.
C13_UnknownIdNotFound ==
    \A sid \in Unknown :
        /\ \A message \in Messages \ {EmptyMsg} : ChatStatus(sid, message) = 404
        /\ FormStateResponse(sid).status = 404
        /\ ExportStatus(sid) = 404

\* C13 amended: a form-state or export request that names a session id which
\* was never created or has been disposed is answered with not-found, and so
\* is a chat request that carries a message while an API key is configured;
\* a chat request without a message is answered 400 and one without an API
\* key 503, before the session is looked up. None of these requests creates
\* or changes a session or a file, and the object of a disposed session is
\* out of the reach of every request that comes after.
C13_UnknownIdChangesNothing ==
    /\ [](\A sid \in Unknown :
             /\ \A message \in Messages :
                   ChatStatus(sid, message)
                      = IF message = EmptyMsg THEN 400
                        ELSE IF KeyMissing THEN 503
                        ELSE 404
             /\ FormStateResponse(sid) = [status |-> 404]
             /\ ExportStatus(sid) = 404
             /\ sid \in DOMAIN heap => \E p \in Refs : p.sid = sid)
    /\ [][\A sid \in Unknown :
             (\/ \E message \in Messages : ChatRequest(sid, message)
              \/ FormState(sid)
              \/ ExportRequest(sid))
                => UNCHANGED vars
         ]_vars

\* C13 witness: a session that a client knows of has been disposed, no
\* handler holds its object any more, and the service is configured: a chat
\* on its id is answered not-found
C13_Witness ==
    \E sid \in KnownIds :
        /\ sid \notin sessions
        /\ sid \notin DOMAIN heap
        /\ ChatStatus(sid, WordMsg) = 404

\* the call of detectFormFields has returned or thrown
Detected == args.fn = "detectFormFields" /\ result # Pending

\* the type and the id of every field of a schema, in order
TypesOf(schema) == [k \in 1..Len(schema) |-> schema[k].type]

IdsOf(schema) == [k \in 1..Len(schema) |-> schema[k].id]

\* C14: for every text input for which the primary and the secondary pass
\* detect zero fields, the empty text included, detectFormFields returns
\* exactly the five generic fields, of types name, email, phone, address and
\* date in this order, with ids field_1 to field_5, none of them with
\* coordinates; and it never returns an empty list.
C14_GenericFallback ==
    Detected =>
       /\ "returned" \in DOMAIN result => Len(result.returned) > 0
       /\ LET passes == bothPasses(args.text, args.words)
          IN  (~passes.thrown /\ Len(passes.fields) = 0)
                 => /\ "returned" \in DOMAIN result
                    /\ TypesOf(result.returned)
                          = <<"name", "email", "phone", "address", "date">>
                    /\ IdsOf(result.returned)
                          = <<"field_1", "field_2", "field_3", "field_4",
                              "field_5">>
                    /\ \A k \in 1..5 :
                          /\ result.returned[k].coordinates = NoCoordinates
                          /\ result.returned[k].value = Null

\* C14 witness: a text whose only line has no indicator and no keyword was
\* given together with word boxes, and five fields came back
C14_Witness ==
    /\ Detected
    /\ args.text = HelloLine
    /\ args.words = OcrWords
    /\ "returned" \in DOMAIN result
    /\ Len(result.returned) = 5

\* an extractor has returned a schema
Returned == result # Pending /\ "returned" \in DOMAIN result

\* the ids field_1, field_2, ... in order
Numbered ==
    <<"field_1", "field_2", "field_3", "field_4", "field_5", "field_6",
      "field_7", "field_8">>

\* C15: for any extractor input (text through the primary pass, the
\* secondary pass, the generic fallback, or native-form controls) the ids of
\* the returned fields are exactly field_1 to field_n in sequence order,
\* with no gaps and no duplicates.
C15_IdsContiguous ==
    Returned =>
       /\ Len(result.returned) <= Len(Numbered)
       /\ IdsOf(result.returned) = SubSeq(Numbered, 1, Len(result.returned))
       /\ \A j, k \in 1..Len(result.returned) :
             result.returned[j].id = result.returned[k].id => j = k

\* C15 witness: the primary pass has returned a field for each of two lines
C15_Witness ==
    /\ Detected
    /\ args.text = joinLines(<<NotesLine, EmailLine>>)
    /\ Returned
    /\ Len(result.returned) = 2
    /\ result.returned[2].id = "field_2"

\* the lines of the form "<label>: ____", and the type the keyword table
\* gives each
LabelledLines == {FullNameLine, EmailAddressLine, NotesLine}

KeywordType(line) ==
    IF line = FullNameLine THEN "name"
    ELSE IF line = EmailAddressLine THEN "email"
    ELSE "text"

\* the texts made of such lines, each at most once
LabelledTexts ==
    {ls \in UNION {[1..n -> LabelledLines] : n \in 1..MaxLines} :
        \A j, k \in 1..Len(ls) : ls[j] = ls[k] => j = k}

\* C16 as stated: for a text made of lines of the form "<label>: ____" with
\* distinct labels, the two lines "Full Name: ____" and "Email Address: ____"
\* among them, the extractor does not fail and returns exactly one field per
\* line, in line order, with the type of the keyword table (name, then
\* email) and required = true on each, and no further field.
C16_OneFieldPerLabelledLine ==
    \A ls \in LabelledTexts :
        (Detected /\ args.text = joinLines(ls))
           => /\ Returned
              /\ Len(result.returned) = Len(ls)
              /\ \A k \in 1..Len(ls) :
                    /\ result.returned[k].type = KeywordType(ls[k])
                    /\ result.returned[k].required = TRUE
                    /\ result.returned[k].position = k - 1

\* C17 as stated: when no word bounding boxes are supplied, field extraction
\* is total: for every input text detectFormFields returns a schema, never
\* raising, whichever combination of primary pass, secondary pass and
\* fallback applies, and every returned field has no coordinates.
C17_TotalWithoutWords ==
    (Detected /\ args.words = <<>>)
       => /\ Returned
          /\ \A k \in 1..Len(result.returned) :
                result.returned[k].coordinates = NoCoordinates

\* the call of validateFieldValue has returned
Validated == args.fn = "validateFieldValue" /\ result # Pending

\* the value consists of white space only, the empty value included
WhiteOnly(v) == \A k \in 1..Len(v) : v[k] \in Spaces

\* C18: validateFieldValue rejects the empty string and every string of
\* white space only, for every field type; for every type other than email,
\* phone, date and ssn it accepts every string that contains at least one
\* character that is not white space.
C18_EmptyRejectedOthersAccepted ==
    Validated =>
       /\ WhiteOnly(args.value) => result.valid = FALSE
       /\ (~WhiteOnly(args.value)
              /\ args.type \notin {"email", "phone", "date", "ssn"})
             => result.valid = TRUE

\* C18 witness: a value of white space only was rejected for a field of a
\* type that carries no pattern
C18_Witness ==
    /\ Validated
    /\ args.type = "name"
    /\ args.value = <<" ", "\t">>
    /\ result.valid = FALSE

\* the number of digits of a value, and the characters a phone number may
\* have besides digits
Digits(v) == Cardinality({k \in 1..Len(v) : IsDigit(v[k])})

Punctuation == {" ", "-", "(", ")", "+"}

\* C19 as stated: validateFieldValue('phone', v) is valid if and only if v
\* contains at least 10 digits and otherwise only spaces, hyphens,
\* parentheses and plus signs; a string of 10 or more allowed characters
\* with fewer than 10 digits is rejected.
C19_PhoneNeedsTenDigits ==
    (Validated /\ args.type = "phone")
       => (result.valid
              <=> /\ Digits(args.value) >= 10
                  /\ \A k \in 1..Len(args.value) :
                        IsDigit(args.value[k]) \/ args.value[k] \in Punctuation)

\* the flattened document is there
Filled == args.fn = "fillInteractivePDFForm" /\ result # Pending

\* C20 as stated: for a native-form document, every schema field that was
\* extracted from a text control and has a non-empty recorded value is
\* written back to the control it was extracted from, so that after
\* flattening that control's baked value equals the recorded value,
\* whatever the control's name looks like (single word, camelCase or
\* underscore-separated).
\* Stated for the fills in which pdf-lib rejects nothing.
C20_WrittenBackToItsControl ==
    Filled =>
       \A k \in 1..Len(args.formFields) :
          LET field == args.formSchema.fields[k]
          IN  (/\ args.throws.assign = {}
               /\ ~args.throws.flatten
               /\ args.formFields[k].class = "PDFTextField"
               /\ field.pdfFieldName = args.formFields[k].name
               /\ args.filledFields[field.id] # <<>>)
                 => result.baked[k].text = args.filledFields[field.id]

\* the values recorded for session sid, and the ids of its fields before the
\* cursor
Values(sid) == heap[sid].filledFields

IdsBefore(sid) == {Fields(sid)[k].id : k \in 1..Cursor(sid)}

\* C26: in every reachable session state the key set of the values is
\* exactly the set of ids of the schema fields at indices 0..cursor-1, so
\* that the keys are ids of the schema and there are as many values as the
\* cursor says; no value is recorded for a field at or beyond the cursor,
\* and a value once recorded is never overwritten or removed.
C26_ValuesAreFieldsBeforeCursor ==
    /\ [](\A sid \in sessions :
             /\ Cursor(sid) <= Len(Fields(sid))
             /\ DOMAIN Values(sid) = IdsBefore(sid)
             /\ Cardinality(DOMAIN Values(sid)) = Cursor(sid))
    /\ [][\A sid \in Staying : \A id \in DOMAIN Values(sid) :
             /\ id \in DOMAIN Values(sid)'
             /\ Values(sid)'[id] = Values(sid)[id]
         ]_vars

\* C26 witness: the first of two fields is answered and the second is not
C26_Witness ==
    \E sid \in sessions :
        /\ Len(Fields(sid)) = 2
        /\ Cursor(sid) = 1
        /\ DOMAIN Values(sid) = {"field_1"}

\* other chat requests to session sid are under way, waiting for the
\* question-generation collaborator
Overlapping(sid) == \E p \in chatPending : p.sid = sid

\* C28: no lost update. Under any interleaving of concurrent chat requests on
\* one session, the validate-record-advance step of each request is applied
\* against the cursor as it is at that moment: an accepted answer is stored
\* under the id of the field at the cursor, which had no value yet, every
\* value stored before stays as it is, and the cursor moves by one, so that
\* after k accepted answers the cursor is k and exactly k values are stored
\* under distinct ids; the requests that are waiting meanwhile, and their
\* completions, change neither cursor nor values.
C28_NoLostUpdate ==
    [][\A sid \in Staying :
          LET id == FieldAt(Fields(sid), Cursor(sid)).id
          IN  IF Answered(sid) /\ Collecting(sid) /\ Validates(sid, Answer(sid))
              THEN /\ id \notin DOMAIN Values(sid)
                   /\ Values(sid)' = (id :> Answer(sid)) @@ Values(sid)
                   /\ Cursor(sid)' = Cursor(sid) + 1
                   /\ Cardinality(DOMAIN Values(sid)') = Cursor(sid)'
              ELSE /\ Values(sid)' = Values(sid)
                   /\ Cursor(sid)' = Cursor(sid)
      ]_vars

\* C28 witness: the second answer was accepted while the request that
\* brought the first was still waiting for its question: both values are
\* stored
C28_Witness ==
    \E sid \in sessions :
        /\ Overlapping(sid)
        /\ \E p \in chatPending : p.sid = sid /\ p.index = 1
        /\ Cursor(sid) = 2
        /\ DOMAIN Values(sid) = {"field_1", "field_2"}

\* the step emits a reply for session sid: an assistant entry is appended to
\* its history
Replied(sid) ==
    /\ Len(History(sid)') = Len(History(sid)) + 1
    /\ History(sid)'[Len(History(sid)')].role = "assistant"

\* C30 as stated: every reply to a chat request or an upload agrees with the
\* session state at the time it is emitted, whatever the question-generation
\* collaborator returns: its isComplete is true if and only if the session's
\* complete flag is true, and when isComplete is false its fieldId is the id
\* of the field at the session's cursor.
C30_RepliesAgreeWithSession ==
    [][\A sid \in Staying :
          Replied(sid) =>
             /\ Said(sid).isComplete <=> heap'[sid].isComplete
             /\ ~Said(sid).isComplete
                   => /\ Cursor(sid)' < Len(Fields(sid)')
                      /\ Said(sid).fieldId
                            = FieldAt(Fields(sid)', Cursor(sid)').id
      ]_vars

\* every chat request to session sid has been answered
Settled(sid) == \A p \in chatPending \cup uploadPending : p.sid # sid

\* C29 as stated: after any sequence of chat exchanges the client's preview
\* map filledFields equals the server session's filledFields: each accepted
\* answer is stored on the client under the id of the field it answered, the
\* answer to the last field included, and rejected answers are stored under
\* no field.
C29_PreviewEqualsValues ==
    \A sid \in sessions :
        Settled(sid) => previewAfter(History(sid), 1, <<>>) = Values(sid)

\* the line carries an "optional" or an "if applicable" marker
Marked(line) ==
    \/ includes(toLowerCase(line), <<"o", "p", "t", "i", "o", "n", "a", "l">>)
    \/ includes(toLowerCase(line), <<"i", "f", " ", "a", "p", "p", "l", "i", "c", "a", "b", "l", "e">>)

\* the line of the text a field of the returned schema was detected on
LineOf(field) == linesOf(args.text)[field.position + 1]

\* C27 as stated: every field of an extracted schema has required = true
\* unless the source line it was detected from contains an "optional" or
\* "if applicable" marker; this holds for fields from the primary pass, the
\* secondary pass, native-form controls, and the generic fallback schema
\* produced from marker-free text.
C27_RequiredUnlessMarked ==
    Returned =>
       \A k \in 1..Len(result.returned) :
          LET field == result.returned[k]
          IN  ~field.required
                 => /\ Detected
                    /\ "position" \in DOMAIN field
                    /\ Marked(LineOf(field))

\* C27 amended: every field returned from the passes over the text has
\* required = false if the line it was detected on contains an "optional" or
\* "if applicable" marker (in any case of letters) and required = true
\* otherwise; every field extracted from a native-form control has required
\* = true; the generic fallback schema is fixed, whatever the text: its
\* Address field has required = false and its other four fields have
\* required = true.
C27_RequiredUnlessMarkedOrGenericAddress ==
    Returned =>
       \A k \in 1..Len(result.returned) :
          LET field == result.returned[k]
          IN  IF ~Detected THEN field.required
              ELSE IF "position" \in DOMAIN field
              THEN field.required <=> ~Marked(LineOf(field))
              ELSE /\ Len(result.returned) = 5
                   /\ field.required <=> field.type # "address"

\* C27 witness: the field detected on a line with the marker "(optional)" was
\* returned as not required, after a field that is required
C27_Witness ==
    /\ Detected
    /\ args.text = joinLines(<<NotesLine, OptionalLine>>)
    /\ Returned
    /\ Len(result.returned) = 2
    /\ result.returned[1].required
    /\ ~result.returned[2].required

\* the places of the log where the form is flattened
Flattens(log) == {i \in 1..Len(log) : log[i].op = "flatten"}

\* the log holds an attempt for the field: its control was looked up and,
\* where there is one, the assignment to it was made
Attempted(log, field) ==
    \E i \in 1..Len(log) :
        /\ log[i].op = "find"
        /\ log[i].field = field.id
        /\ log[i].control # 0
              => /\ i < Len(log)
                 /\ log[i + 1] = [op |-> "assign", field |-> field.id,
                                  control |-> log[i].control]

\* C21: in the native-form strategy the form is flattened exactly once and
\* only after an assignment has been attempted for every schema field with
\* a non-empty value: the call of flatten is the last call on the form. A
\* failure while assigning one control does not stop the remaining fields
\* from being attempted and does not prevent the flatten.
C21_FlattenOnceAfterAllFields ==
    Filled =>
       /\ Flattens(result.log) = {Len(result.log)}
       /\ \A k \in 1..Len(args.formSchema.fields) :
             LET field == args.formSchema.fields[k]
             IN  args.filledFields[field.id] # <<>>
                    => Attempted(result.log, field)
       /\ \A i, j \in 1..(Len(result.log) - 1) :
             (i < j /\ result.log[i].field # result.log[j].field)
                => \E a, b \in 1..Len(args.formSchema.fields) :
                      /\ a < b
                      /\ args.formSchema.fields[a].id = result.log[i].field
                      /\ args.formSchema.fields[b].id = result.log[j].field

\* C21 witness: the assignment to the first of two controls was rejected,
\* the second control was assigned all the same, and then the form was
\* flattened
C21_Witness ==
    /\ Filled
    /\ Len(args.formFields) = 2
    /\ args.throws.assign = {1}
    /\ Len(result.log) = 5
    /\ result.log[2] = [op |-> "assign", field |-> "field_1", control |-> 1]
    /\ result.baked[1] = BlankControl(args.formFields[1])
    /\ result.log[4] = [op |-> "assign", field |-> "field_2", control |-> 2]
    /\ result.baked[2] # BlankControl(args.formFields[2])
    /\ result.log[5].op = "flatten"

\* generateFilledPDF has returned
Generated == args.fn = "generateFilledPDF" /\ result # Pending

\* the height and the width of the first page of the generated document
PageHeight ==
    IF args.document.kind = "pdf" THEN args.document.height ELSE LetterHeight

PageWidth ==
    IF args.document.kind = "pdf" THEN args.document.width ELSE LetterWidth

\* the position in the schema, counted from 0, of the field a text was drawn
\* for
IndexOf(draw) ==
    (CHOOSE k \in 1..Len(args.formSchema.fields) :
        args.formSchema.fields[k].id = draw.field) - 1

\* the field at index, counted from 0, has a recorded value
HasValue(index) ==
    LET id == args.formSchema.fields[index + 1].id
    IN  id \in DOMAIN args.filledFields /\ args.filledFields[id] # <<>>

\* the field at index, counted from 0, has no coordinates
Unplaced(index) ==
    args.formSchema.fields[index + 1].coordinates = NoCoordinates

\* the drawText calls made for the field at index, counted from 0
DrawsOf(index) ==
    {n \in 1..Len(result.drawn) :
        result.drawn[n].field = args.formSchema.fields[index + 1].id}

\* C22: in the overlay strategy a field with a recorded value and no
\* coordinates is drawn once (a check box only when it is ticked), at x = 150
\* and y = pageTop - index * 25, where pageTop is 150 below the page height
\* and index is the position of the field in the schema, fields without a
\* value counted; so two such fields are never drawn in the same row, and the
\* rows go down the page in schema order.
C22_FallbackRows ==
    Generated /\ result.overlaid =>
        /\ \A index \in 0..(Len(args.formSchema.fields) - 1) :
              Unplaced(index) =>
                 /\ \A n \in DrawsOf(index) :
                       /\ HasValue(index)
                       /\ result.drawn[n].x = Num(150)
                       /\ result.drawn[n].y =
                             Num((PageHeight - 150) - index * 25)
                 /\ HasValue(index)
                    /\ args.formSchema.fields[index + 1].type # "checkbox"
                       => Cardinality(DrawsOf(index)) = 1
        /\ \A m, n \in 1..Len(result.drawn) :
              /\ Unplaced(IndexOf(result.drawn[m]))
              /\ Unplaced(IndexOf(result.drawn[n]))
              /\ m < n
              => /\ IndexOf(result.drawn[m]) < IndexOf(result.drawn[n])
                 /\ Exceeds(result.drawn[m].y, result.drawn[n].y)

\* an A4 document without a form and with two detected fields, the first
\* without a value: the second is drawn in the second row, 175 below the top
C22_Witness ==
    /\ Generated
    /\ args.document.kind = "pdf"
    /\ args.document.controls = <<>>
    /\ args.document.height = 842
    /\ Len(args.formSchema.fields) = 2
    /\ ~HasValue(0)
    /\ Len(result.drawn) = 1
    /\ result.drawn[1].field = args.formSchema.fields[2].id
    /\ result.drawn[1].x = Num(150)
    /\ result.drawn[1].y = Num(667)

\* the width and the height of the source the coordinates were measured in,
\* where the schema tells them; 0 where it does not
SourceWidth ==
    IF "imageWidth" \in DOMAIN args.formSchema
    THEN args.formSchema.imageWidth ELSE 0

SourceHeight ==
    IF "imageHeight" \in DOMAIN args.formSchema
    THEN args.formSchema.imageHeight ELSE 0

\* the field at index, counted from 0, has coordinates
Placed(index) == ~Unplaced(index)

\* the number q is the fraction n / d
IsFraction(q, n, d) == q.den > 0 /\ d # 0 /\ q.num * d = n * q.den

\* C23: a text drawn for a field with coordinates is at
\* x = inputX * (pageWidth / sourceWidth) and
\* y = pageHeight - inputY * (pageHeight / sourceHeight); where the source
\* width or height is unknown or zero the page's own takes its place, which
\* leaves inputX, or inputY, as it is; the position is a number in every case,
\* never the outcome of a division by zero.
C23_ScaledPosition ==
    Generated /\ result.overlaid =>
        \A n \in 1..Len(result.drawn) :
            LET draw == result.drawn[n]
                field == args.formSchema.fields[IndexOf(draw) + 1]
                inputX == field.coordinates.inputX
                inputY == field.coordinates.inputY
                fromTop == Minus(Num(PageHeight), draw.y)
            IN  Placed(IndexOf(draw)) =>
                   /\ draw.x.den > 0
                   /\ draw.y.den > 0
                   /\ IF SourceWidth = 0
                      THEN draw.x = Num(inputX)
                      ELSE IsFraction(draw.x, inputX * PageWidth, SourceWidth)
                   /\ IF SourceHeight = 0
                      THEN fromTop = Num(inputY)
                      ELSE IsFraction(fromTop, inputY * PageHeight,
                                      SourceHeight)

\* an image whose OCR result gives its size as 0 by 0, and a text drawn for a
\* field with coordinates: on the page at inputX, inputY below the top
C23_Witness ==
    /\ Generated
    /\ args.document.kind = "image"
    /\ "imageWidth" \in DOMAIN args.formSchema
    /\ args.formSchema.imageWidth = 0
    /\ args.formSchema.imageHeight = 0
    /\ \E n \in 1..Len(result.drawn) :
          LET field == args.formSchema.fields[IndexOf(result.drawn[n]) + 1]
          IN  /\ Placed(IndexOf(result.drawn[n]))
              /\ result.drawn[n].x = Num(field.coordinates.inputX)
              /\ result.drawn[n].y =
                    Num(LetterHeight - field.coordinates.inputY)

\* the schema is flagged as a native form and the document has a control
NativeForm ==
    args.formSchema.isPDFForm /\ Len(args.document.controls) >= 1

\* the export has assigned a value to a control of the document
Assigned ==
    \E k \in 1..Len(result.controls) :
        result.controls[k] # BlankControl(args.document.controls[k])

\* C24 as stated: an export applies exactly one fill strategy: the controls
\* are filled and nothing is overlaid when the schema is flagged as a native
\* form and the document has at least one control, and the overlay alone is
\* applied otherwise; no text is drawn onto a document whose controls the
\* same export has assigned.
C24_OneStrategy ==
    Generated =>
        /\ NativeForm => result.log # <<>> /\ ~result.overlaid
        /\ ~NativeForm => result.overlaid /\ result.log = <<>>
        /\ ~(Assigned /\ result.drawn # <<>>)

\* the texts drawn for regular fields: neither check box nor signature
RegularDraws ==
    {n \in 1..Len(result.drawn) :
        args.formSchema.fields[IndexOf(result.drawn[n]) + 1].type
            \notin {"checkbox", "signature"}}

\* the recorded value a text was drawn for
ValueOf(draw) == args.filledFields[draw.field]

\* the width left of a text's position: pageWidth - x - 50
Remaining(draw) == Minus(Minus(Num(PageWidth), draw.x), Num(50))

\* the text, at the size regular fields are drawn in, is not wider than what
\* is left at the position of draw
Fits(text, draw) == ~Exceeds(widthOfTextAtSize(text, 10), Remaining(draw))

\* the text drawn is the longest prefix of the value that fits together with
\* the ellipsis, followed by the ellipsis; the prefix is empty when no prefix
\* fits
LongestPrefix(draw) ==
    \E k \in 0..(Len(ValueOf(draw)) - 1) :
        /\ draw.text = SubSeq(ValueOf(draw), 1, k) \o Ellipsis
        /\ k > 0 => Fits(draw.text, draw)
        /\ \A j \in (k + 1)..Len(ValueOf(draw)) :
              ~Fits(SubSeq(ValueOf(draw), 1, j) \o Ellipsis, draw)

====
